---- MODULE Spec2Model ----
(***************************************************************************)
(* Model of the ThreatVeil backend: the decision lifecycle                 *)
(* (routes/decisions.py, routes/verification.py, services/impact_service,  *)
(* services/verification_engine, services/verification_service), the scan  *)
(* orchestrator's persistence path (routes/scan.py) and the blob cache     *)
(* (services/cache.py).                                                    *)
(*                                                                         *)
(* Timestamps are hours on one clock `now`.  A scan is stamped a day after  *)
(* everything stamped before it, and every other handler stamps the time a *)
(* day after the latest scan, so that two successive scans lie two days    *)
(* apart: the code only ever compares a scan's created_at with a           *)
(* decision's timestamps, never two decision timestamps with each other.   *)
(* Confidence scores are kept in tenths (0.7 is 7).                        *)
(***************************************************************************)
EXTENDS Integers, Sequences, FiniteSets, TLC

VARIABLES now, scans, orgs, decisions, impacts, lastResp, firstGen,
          clock, cache, cpc, ckey, cstart, cresult, fetchCount,
          pin, pout,
          aclock, assets, schedules, lastTick,
          deliveries, emitter

vars == <<now, scans, orgs, decisions, impacts, lastResp, firstGen,
          clock, cache, cpc, ckey, cstart, cresult, fetchCount,
          pin, pout,
          aclock, assets, schedules, lastTick,
          deliveries, emitter>>

lifecycleVars == <<now, scans, orgs, decisions, impacts, lastResp, firstGen>>
cacheVars == <<clock, cache, cpc, ckey, cstart, cresult, fetchCount>>
probeVars == <<pin, pout>>
assetVars == <<aclock, assets, schedules, lastTick>>
webhookVars == <<deliveries, emitter>>

\* what the handlers of one part leave alone
outsideLifecycle == <<cacheVars, probeVars, assetVars, webhookVars>>
outsideCache == <<lifecycleVars, probeVars, assetVars, webhookVars>>
outsideProbes == <<lifecycleVars, cacheVars, assetVars, webhookVars>>
outsideAssets == <<lifecycleVars, cacheVars, probeVars, webhookVars>>
outsideWebhooks == <<lifecycleVars, cacheVars, probeVars, assetVars>>

(***************************************************************************)
(* Bounds                                                                  *)
(***************************************************************************)
MaxScans == 2
MaxDecidedScans == 1
MaxFetches == 3
MaxClock == 3
TtlTicks == 2
MaxAssets == 2
MaxHours == 30
MaxErrorCount == 1
MaxDeliveries == 2

NULL == -1

HOURS_DAILY == 24
HOURS_WEEKLY == 168
HOURS_MONTHLY == 720
HOURS_YEAR == 8760

Domains == {"a.com"}
Callers == {"c1", "c2"}
Keys == {"ctlog:k1"}

(***************************************************************************)
(* Signals and probe outcomes                                              *)
(***************************************************************************)
\* a signal id is kept as <<prefix, name, suffix>>: the code only ever tests
\* whether an id starts with "service_" and ends with "_failure"
Sig(id, t, c, sev, src) ==
  [id |-> id, type |-> t, category |-> c, severity |-> sev, source |-> src]

PlainId(name) == <<"", name, "">>

CveHigh == Sig(PlainId("cve_1"), "cve", "software", "high", "nvd")
CveHigh2 == Sig(PlainId("cve_2"), "cve", "software", "high", "nvd")
TlsHigh == Sig(PlainId("tls_expiring_soon"), "tls", "network", "high", "tls")
DmarcMissing == Sig(PlainId("dns_missing_dmarc"), "dns", "data_exposure", "medium", "dns")
HeaderMissing == Sig(PlainId("http_header_missing"), "http", "software", "medium", "https")
\* http_service.py 87-103: a missing strict-transport-security or
\* content-security-policy header is a high-severity software signal
HstsMissing ==
  Sig(PlainId("http_header_strict_transport_security_missing"), "http", "software", "high", "https")
CspMissing ==
  Sig(PlainId("http_header_content_security_policy_missing"), "http", "software", "high", "https")
CtChurn == Sig(PlainId("ct_high_churn"), "ct", "network", "medium", "ctlog")
GithubLeak == Sig(PlainId("github_leak"), "github", "data_exposure", "high", "github")
NoFindings == Sig(PlainId("scan_completed_no_findings"), "ai_guard", "software", "low", "system")

\* make_service_error_signal: id service_<name>_failure, low severity
make_service_error_signal(service, category) ==
  Sig(<<"service_", service, "_failure">>, "ai_guard", category, "low", service)

\* What the adapters of one scan_vendor call do.  dns, http, tls, ct, cve and
\* github: "raise" (the adapter raises), "none" (no signal), "finding" (its
\* signal); http may also return only technology tokens ("tokens"); cve and
\* github may catch their own error and return the error signal they build
\* ("error"); otx is what fetch_otx would return.
AdapterOutcomes == {"raise", "none", "finding"}

Adapters(dns, http, tls, ct, otx, cve, github) ==
  [dns |-> dns, http |-> http, tls |-> tls, ct |-> ct, otx |-> otx, cve |-> cve,
   github |-> github]

Quiet == Adapters("none", "none", "none", "none", "none", "none", "none")

\* What one scan_vendor call meets: the adapters' outcomes, the github_org of
\* the request and what the AI sub-scan detects.
ScanInputs ==
  << [probes |-> Quiet, github_org |-> "", ai_keys |-> 0, ai_tools |-> <<>>],
     [probes |-> [Quiet EXCEPT !.http = "tokens", !.cve = "finding"],
      github_org |-> "", ai_keys |-> 0, ai_tools |-> <<>>],
     [probes |-> Quiet, github_org |-> "acme", ai_keys |-> 1, ai_tools |-> <<>>] >>

InputIds == 1..Len(ScanInputs)

AgentTools == {"langchain", "crewai", "autogen", "langgraph", "agent"}

Min(a, b) == IF a < b THEN a ELSE b

(***************************************************************************)
(* scoring.py                                                              *)
(***************************************************************************)
SEVERITY_POINTS(sev) ==
  CASE sev = "low" -> 5 [] sev = "medium" -> 15 [] sev = "high" -> 30 [] sev = "critical" -> 50

RECURSIVE CategoryPoints(_, _)
CategoryPoints(signals, cat) ==
  IF signals = <<>> THEN 0
  ELSE (IF Head(signals).category = cat THEN SEVERITY_POINTS(Head(signals).severity) ELSE 0)
       + CategoryPoints(Tail(signals), cat)

\* round() of Python rounds halves to even; the weights are multiples of 0.05
RoundHalfEven20(t20) ==
  LET q == t20 \div 20
      r == t20 % 20
  IN IF r > 10 THEN q + 1
     ELSE IF r < 10 THEN q
     ELSE IF q % 2 = 0 THEN q ELSE q + 1

score_signals(signals) ==
  LET n == Min(100, CategoryPoints(signals, "network"))
      s == Min(100, CategoryPoints(signals, "software"))
      d == Min(100, CategoryPoints(signals, "data_exposure"))
      a == Min(100, CategoryPoints(signals, "ai_integration"))
  IN Min(100, RoundHalfEven20(8 * n + 7 * s + 4 * d + a))

(***************************************************************************)
(* routes/scan.py: the probe fan-out of scan_vendor.  A wrapper's result is *)
(* the signals it returns, or the exception it lets through.               *)
(***************************************************************************)
Returned(signals) == [raised |-> FALSE, signals |-> signals]
Propagated == [raised |-> TRUE, signals |-> <<>>]

_safe_fetch_dns_Unguarded(a) ==
  CASE a.dns = "raise" -> Propagated
    [] a.dns = "finding" -> Returned(<<DmarcMissing>>)
    [] OTHER -> Returned(<<>>)

_safe_fetch_dns(a) ==
  CASE a.dns = "raise" -> Returned(<<make_service_error_signal("dns", "network")>>)
    [] a.dns = "finding" -> Returned(<<DmarcMissing>>)
    [] OTHER -> Returned(<<>>)

_safe_fetch_http(a) ==
  CASE a.http = "raise" -> Returned(<<make_service_error_signal("http", "network")>>)
    [] a.http = "finding" -> Returned(<<HeaderMissing>>)
    [] OTHER -> Returned(<<>>)

\* tech_tokens of the HTTP result: none when the wrapper caught an exception
TechTokens(a) == a.http \in {"tokens", "finding"}

_safe_fetch_tls(a) ==
  CASE a.tls = "raise" -> Returned(<<make_service_error_signal("tls", "network")>>)
    [] a.tls = "finding" -> Returned(<<TlsHigh>>)
    [] OTHER -> Returned(<<>>)

_safe_fetch_ct(a) ==
  CASE a.ct = "raise" -> Returned(<<make_service_error_signal("ct", "network")>>)
    [] a.ct = "finding" -> Returned(<<CtChurn>>)
    [] OTHER -> Returned(<<>>)

\* line 94 calls otx_service.fetch_otx_indicators; otx_service defines only
\* fetch_otx, so the call raises AttributeError inside the try, whatever
\* fetch_otx would have returned
_safe_fetch_otx(a) == Returned(<<make_service_error_signal("otx", "network")>>)

\* the CVE probe runs only when the HTTP probe returned technology tokens;
\* "error" is the service_nvd_failure signal fetch_cves builds itself
_safe_fetch_cves(a) ==
  IF ~TechTokens(a) THEN Returned(<<>>)
  ELSE CASE a.cve = "raise" -> Returned(<<make_service_error_signal("cve", "software")>>)
         [] a.cve = "error" -> Returned(<<make_service_error_signal("nvd", "software")>>)
         [] a.cve = "finding" -> Returned(<<CveHigh, CveHigh2>>)
         [] OTHER -> Returned(<<>>)

\* the code-search probe runs only when the request names a github_org;
\* "error" is the error signal search_code_leaks builds itself
_safe_fetch_github(a, org) ==
  IF org = "" THEN Returned(<<>>)
  ELSE CASE a.github \in {"raise", "error"} ->
              Returned(<<make_service_error_signal("github", "ai_integration")>>)
         [] a.github = "finding" -> Returned(<<GithubLeak>>)
         [] OTHER -> Returned(<<>>)

\* lines 137-154: the wrappers' results in the order they are merged
ProbeResults(a, org) ==
  << _safe_fetch_dns(a), _safe_fetch_http(a), _safe_fetch_tls(a), _safe_fetch_ct(a),
     _safe_fetch_cves(a), _safe_fetch_github(a, org), _safe_fetch_otx(a) >>

RECURSIVE Merge(_)
Merge(results) ==
  IF results = <<>> THEN <<>> ELSE Head(results).signals \o Merge(Tail(results))

IsServiceError(s) == s.id[1] = "service_" /\ s.id[3] = "_failure"

\* line 167
partial_failures(all_signals) == Len(SelectSeq(all_signals, IsServiceError))

\* lines 169-180: the synthetic signal of a scan without signals
WithSynthetic(merged) == IF merged = <<>> THEN <<NoFindings>> ELSE merged

\* lines 136-182 and 286: the response of scan_vendor as far as the probes
\* decide it
ProbeOutcome(a, org) ==
  LET results == ProbeResults(a, org)
      merged == Merge(results)
      all_signals == WithSynthetic(merged)
  IN IF \E i \in 1..Len(results) : results[i].raised
     THEN [code |-> 500, signals |-> <<>>, partial_failures |-> 0, risk_score |-> 0]
     ELSE [code |-> 200, signals |-> all_signals,
           partial_failures |-> partial_failures(merged),
           risk_score |-> score_signals(all_signals)]

(***************************************************************************)
(* Rows                                                                    *)
(***************************************************************************)
\* signals_json of a persisted scan: the signals of the response
AllSignals(inp) ==
  ProbeOutcome(ScanInputs[inp].probes, ScanInputs[inp].github_org).signals

SignalsOf(scan) == AllSignals(scan.input)
RiskOf(scan) == score_signals(SignalsOf(scan))

\* the ScanAI row of a scan: ai = "full" (detected data), "empty" (fallback
\* entry) or "none" (no row)
AiKeysOf(scan) == IF scan.ai = "full" THEN ScanInputs[scan.input].ai_keys ELSE 0
AiToolsOf(scan) == IF scan.ai = "full" THEN ScanInputs[scan.input].ai_tools ELSE <<>>
IsAgent_Never(t) == FALSE

IsAgent(t) == t \in AgentTools
AgentCount(tools) == Len(SelectSeq(tools, IsAgent))

ScanById(id) == {s \in scans : s.id = id}
TheScan(id) == CHOOSE s \in scans : s.id = id

Latest(S) == {s \in S : \A t \in S : t.created_at <= s.created_at}
HasLatest(S) == S # {}
LatestOf(S) == CHOOSE s \in Latest(S) : TRUE

DecIds == 1..Len(decisions)

(***************************************************************************)
(* routes/decisions.py: deterministic decision generation                  *)
(***************************************************************************)
Priority(action_id) ==
  CASE action_id = "key-rotation" -> 1
    [] action_id = "patch-cves" -> 2
    [] action_id = "review-agents" -> 3
    [] action_id = "audit-data" -> 4
    [] action_id = "update-tls" -> 5
    [] action_id = "review-network" -> 6
    [] action_id = "audit-ai-tools" -> 7

IsHighCve(s) == s.category = "software" /\ s.severity = "high"
IsDataExposure(s) == s.category = "data_exposure"
IsTlsIssue(s) == s.source = "tls" /\ s.severity \in {"high", "medium"}
IsNetworkIssue(s) == s.category = "network" /\ s.severity # "low"
IsCveTagged(s) == s.type = "cve"

ByPriority_Descending(a, b) == Priority(a) > Priority(b)

ByPriority(a, b) == Priority(a) < Priority(b)

generate_decisions_for_scan(signals, ai_keys, ai_tools) ==
  LET d1 == IF ai_keys > 0 THEN <<"key-rotation">> ELSE <<>>
      d2 == IF Len(SelectSeq(signals, IsHighCve)) > 0 THEN Append(d1, "patch-cves") ELSE d1
      d3 == IF AgentCount(ai_tools) > 0 THEN Append(d2, "review-agents") ELSE d2
      d4 == IF Len(SelectSeq(signals, IsDataExposure)) > 0 THEN Append(d3, "audit-data") ELSE d3
      d5 == IF Len(SelectSeq(signals, IsTlsIssue)) > 0 THEN Append(d4, "update-tls") ELSE d4
      d6 == IF Len(SelectSeq(signals, IsNetworkIssue)) > 0 /\ Len(d5) < 3
            THEN Append(d5, "review-network") ELSE d5
      d7 == IF Len(ai_tools) > 0 /\ Len(d6) < 3 THEN Append(d6, "audit-ai-tools") ELSE d6
      sorted == SortSeq(d7, ByPriority)
  IN SubSeq(sorted, 1, Min(3, Len(sorted)))

NewDecision(sid, action_id, before, t) ==
  [scan_id |-> sid, action_id |-> action_id, priority |-> Priority(action_id),
   status |-> "pending", before_score |-> before, after_score |-> NULL,
   created_at |-> t, accepted_at |-> NULL, resolved_at |-> NULL,
   verified_at |-> NULL, verification_scan_id |-> NULL,
   confidence_score |-> 8]

\* the decisions part of a DecisionListResponse: id, action and priority of
\* every returned decision
ListResponse(decs, ids) == {<<i, decs[i].action_id, decs[i].priority>> : i \in ids}

ExistingDecisions_NoLookup(decs, sid) == {}

ExistingDecisions(decs, sid) == {i \in 1..Len(decs) : decs[i].scan_id = sid}

\* rows the handler inserts for a scan that has `existing` decisions
RowsToInsert(existing, scan, t) ==
  IF existing # {} THEN <<>>
  ELSE LET acts == generate_decisions_for_scan(SignalsOf(scan), AiKeysOf(scan), AiToolsOf(scan))
       IN [i \in 1..Len(acts) |-> NewDecision(scan.id, acts[i], RiskOf(scan), t)]

\* the scans decisions were generated for
DecidedScans == {decisions[i].scan_id : i \in DecIds}

\* POST /scans/{scan_id}/decisions
GenerateDecisions(sid) ==
  IF ScanById(sid) = {}
  THEN /\ lastResp' = [op |-> "generate", code |-> 404, id |-> sid, again |-> FALSE,
                       listed |-> {}]
       /\ UNCHANGED <<now, scans, orgs, decisions, impacts, firstGen>>
  ELSE LET existing == ExistingDecisions(decisions, sid)
           rows == RowsToInsert(existing, TheScan(sid), now)
           decs == decisions \o rows
           returned == IF existing # {} THEN existing
                       ELSE Len(decisions) + 1 .. Len(decs)
           listed == ListResponse(decs, returned)
       IN /\ rows # <<>> => Cardinality(DecidedScans \cup {sid}) <= MaxDecidedScans
          /\ decisions' = decs
          /\ lastResp' = [op |-> "generate", code |-> 200, id |-> sid,
                          again |-> firstGen[sid] # <<>>, listed |-> listed]
          /\ firstGen' = IF firstGen[sid] = <<>>
                         THEN [firstGen EXCEPT ![sid] = <<listed>>] ELSE firstGen
          /\ UNCHANGED <<now, scans, orgs, impacts>>

(***************************************************************************)
(* services/impact_service.py                                              *)
(***************************************************************************)
SEVEN_DAYS == 7

MatchCount(action_id, scan) ==
  CASE action_id = "patch-cves" -> Len(SelectSeq(SignalsOf(scan), IsHighCve))
    [] action_id = "audit-data" -> Len(SelectSeq(SignalsOf(scan), IsDataExposure))
    [] action_id = "update-tls" -> Len(SelectSeq(SignalsOf(scan), LAMBDA x : x.source = "tls"))
    [] action_id = "review-network" -> Len(SelectSeq(SignalsOf(scan), LAMBDA x : x.category = "network"))
    [] OTHER -> 0

_check_signal_disappeared(action_id, before, after) ==
  CASE action_id = "key-rotation" -> AiKeysOf(after) < AiKeysOf(before)
    [] action_id \in {"review-agents", "audit-ai-tools"} ->
         AgentCount(AiToolsOf(after)) < AgentCount(AiToolsOf(before))
    [] action_id \in {"patch-cves", "audit-data", "update-tls", "review-network"} ->
         MatchCount(action_id, after) < MatchCount(action_id, before)
    [] OTHER -> FALSE

\* before and after are sets holding at most one scan (empty: None)
calculate_confidence(action_id, before, after, resolved_at) ==
  IF after = {} THEN 2
  ELSE LET a == LatestOf(after)
           days_since_resolution == (a.created_at - resolved_at) \div HOURS_DAILY
       IN IF days_since_resolution > SEVEN_DAYS THEN 4
          ELSE IF before # {} /\ _check_signal_disappeared(action_id, LatestOf(before), a)
               THEN 10 ELSE 7

\* the after-scan: the latest scan of the organisation after the resolution,
\* else the latest other scan of the domain newer than the decision
AfterScan(d, org_id, before, resolved_at) ==
  LET org == {s \in scans : s.org_id = org_id /\ s.created_at > resolved_at}
      dom == IF before = {} THEN {}
             ELSE {s \in scans : /\ s.domain = LatestOf(before).domain
                                  /\ s.created_at > d.created_at
                                  /\ s.id # LatestOf(before).id}
  IN IF org # {} THEN Latest(org) ELSE Latest(dom)

ImpactRow(id, d, org_id, t) ==
  LET before == ScanById(d.scan_id)
      risk_before == IF before # {} THEN RiskOf(LatestOf(before))
                     ELSE IF d.before_score = NULL THEN 0 ELSE d.before_score
      resolved_at == IF d.resolved_at # NULL THEN d.resolved_at ELSE t
      after == AfterScan(d, org_id, before, resolved_at)
      risk_after == IF after # {} THEN RiskOf(LatestOf(after)) ELSE NULL
  IN [decision_id |-> id, risk_before |-> risk_before, risk_after |-> risk_after,
      has_delta |-> risk_after # NULL,
      delta |-> IF risk_after # NULL THEN risk_after - risk_before ELSE 0,
      confidence |-> calculate_confidence(d.action_id, before, after, resolved_at),
      resolved_scan_id |-> IF after # {} THEN LatestOf(after).id ELSE NULL]

ImpactsOf(imps, id) == {i \in 1..Len(imps) : imps[i].decision_id = id}

compute_decision_impact_AlwaysInsert(imps, id, d, org_id, t) ==
  Append(imps, ImpactRow(id, d, org_id, t))

\* creates the DecisionImpact row of a decision, or updates the existing one
compute_decision_impact(imps, id, d, org_id, t) ==
  LET existing == ImpactsOf(imps, id)
  IN IF existing # {}
     THEN [i \in 1..Len(imps) |-> IF i = CHOOSE j \in existing : \A k \in existing : j <= k
                                  THEN ImpactRow(id, d, org_id, t) ELSE imps[i]]
     ELSE Append(imps, ImpactRow(id, d, org_id, t))

DeleteImpacts(imps, id) == SelectSeq(imps, LAMBDA r : r.decision_id # id)

(***************************************************************************)
(* routes/decisions.py: PATCH /decisions/{decision_id}                     *)
(***************************************************************************)
ValidStatuses == {"pending", "accepted", "in_progress", "resolved", "verified"}

RejectsVerified_OnlyPending(req, status) == req = "verified" /\ status = "pending"

RejectsVerified(req, status) == req = "verified" /\ status # "resolved"

SetsAcceptedAt(req, old) ==
  req = "accepted" /\ old \notin {"accepted", "in_progress", "resolved", "verified"}

EntersResolved(req, old) == req = "resolved" /\ old # "resolved"

EntersVerified(req, old) == req = "verified" /\ old = "resolved"

LeavesResolution(req, old) ==
  req \notin {"resolved", "verified"} /\ old \in {"resolved", "verified"}

\* lines 346-360: resolved_at and the after_score of the latest scan of the domain
ResolveFields(d, t) ==
  LET scan == ScanById(d.scan_id)
      latest == IF scan = {} THEN {}
                ELSE Latest({s \in scans : s.domain = LatestOf(scan).domain})
  IN [d EXCEPT !.resolved_at = t,
               !.after_score = IF latest # {} THEN RiskOf(LatestOf(latest)) ELSE @]

\* lines 373-385: verified_at and the latest scan after the resolution
VerifyFields(d, t) ==
  LET scan == ScanById(d.scan_id)
      later == IF scan = {} \/ d.resolved_at = NULL THEN {}
               ELSE Latest({s \in scans : /\ s.domain = LatestOf(scan).domain
                                          /\ s.created_at > d.resolved_at})
  IN [d EXCEPT !.verified_at = t,
               !.verification_scan_id = IF later # {} THEN LatestOf(later).id ELSE @]

ClearFields_KeepVerification(d) ==
  [d EXCEPT !.resolved_at = NULL, !.after_score = NULL]

\* lines 388-392
ClearFields(d) ==
  [d EXCEPT !.resolved_at = NULL, !.after_score = NULL,
            !.verified_at = NULL, !.verification_scan_id = NULL]

\* lines 362-370: the impact call is made when the decision's scan has an
\* organisation; an exception in it is swallowed
ImpactAfterResolve(imps, id, d, raises, t) ==
  LET scan == ScanById(d.scan_id)
  IN IF scan = {} \/ raises \/ LatestOf(scan).org_id = "" THEN imps
     ELSE compute_decision_impact(imps, id, d, LatestOf(scan).org_id, t)

ImpactAfterRevert(imps, id) == DeleteImpacts(imps, id)

Reject(op, code, id, req) ==
  /\ lastResp' = [op |-> op, code |-> code, id |-> id, req |-> req, old |-> "none"]
  /\ UNCHANGED <<now, scans, orgs, decisions, impacts, firstGen>>

update_decision_status(id, req, impactRaises) ==
  IF req \notin ValidStatuses THEN Reject("patch", 400, id, req)
  ELSE IF id \notin DecIds THEN Reject("patch", 404, id, req)
  ELSE IF RejectsVerified(req, decisions[id].status) THEN Reject("patch", 400, id, req)
  ELSE
    LET d == decisions[id]
        old == d.status
        d1 == [d EXCEPT !.status = req]
        d2 == IF SetsAcceptedAt(req, old) THEN [d1 EXCEPT !.accepted_at = now] ELSE d1
        d3 == IF EntersResolved(req, old) THEN ResolveFields(d2, now) ELSE d2
        i3 == IF EntersResolved(req, old)
              THEN ImpactAfterResolve(impacts, id, d3, impactRaises, now) ELSE impacts
        d4 == IF EntersVerified(req, old) THEN VerifyFields(d3, now) ELSE d3
        d5 == IF LeavesResolution(req, old) THEN ClearFields(d4) ELSE d4
        i5 == IF LeavesResolution(req, old) THEN ImpactAfterRevert(i3, id) ELSE i3
    IN /\ decisions' = [decisions EXCEPT ![id] = d5]
       /\ impacts' = i5
       /\ lastResp' = [op |-> "patch", code |-> 200, id |-> id, req |-> req, old |-> old]
       /\ UNCHANGED <<now, scans, orgs, firstGen>>

(***************************************************************************)
(* services/verification_engine.py                                         *)
(***************************************************************************)
\* what the re-probe of a verification run observes: the adapter raises, the
\* number of key leaks / agent libraries found now, and the TLS check result
Probe(e, c, v, days) == [err |-> e, count |-> c, tls_valid |-> v, days_to_expiry |-> days]

Probes == {Probe(TRUE, 0, FALSE, 0), Probe(FALSE, 0, TRUE, 45),
           Probe(FALSE, 1, TRUE, 10), Probe(FALSE, 1, FALSE, 0)}

calculate_confidence_tier(d, latest, signal_gone, t) ==
  IF latest = {} THEN 2
  ELSE IF d.resolved_at = NULL THEN 2
  ELSE LET is_recent == t - LatestOf(latest).created_at <= SEVEN_DAYS * HOURS_DAILY
       IN IF is_recent /\ signal_gone THEN 10
          ELSE IF is_recent /\ ~signal_gone THEN 7
          ELSE 4

Outcome(r, c) == [result |-> r, confidence |-> c]

verify_key_rotation(d, scan, latest, probe, t) ==
  IF ScanInputs[scan.input].github_org # ""
  THEN IF probe.err THEN Outcome("unknown", 2)
       ELSE LET original == AiKeysOf(scan)
                current == probe.count
            IN IF current = 0 /\ original > 0
               THEN Outcome("pass", calculate_confidence_tier(d, latest, TRUE, t))
               ELSE IF current < original THEN Outcome("pass", 7)
               ELSE Outcome("fail", 9)
  ELSE Outcome("unknown", 2)

verify_tls_fixed(d, scan, latest, probe, t) ==
  IF probe.err THEN Outcome("unknown", 2)
  ELSE IF probe.tls_valid /\ probe.days_to_expiry > 30
       THEN Outcome("pass", calculate_confidence_tier(d, latest, TRUE, t))
  ELSE IF probe.tls_valid /\ probe.days_to_expiry > 0 THEN Outcome("pass", 6)
  ELSE Outcome("fail", 9)

verify_cve_patched(d, scan, latest, t) ==
  IF latest = {} THEN Outcome("unknown", 2)
  ELSE LET original == Len(SelectSeq(SignalsOf(scan), IsCveTagged))
           current == Len(SelectSeq(SignalsOf(LatestOf(latest)), IsCveTagged))
       IN IF current = 0 /\ original > 0
          THEN Outcome("pass", calculate_confidence_tier(d, latest, TRUE, t))
          ELSE IF current < original THEN Outcome("pass", 7)
          ELSE Outcome("fail", 8)

verify_ai_agents(d, scan, latest, probe, t) ==
  IF ScanInputs[scan.input].github_org = "" THEN Outcome("unknown", 2)
  ELSE IF probe.err THEN Outcome("unknown", 2)
  ELSE LET before == AgentCount(AiToolsOf(scan))
           after == probe.count
       IN IF after < before
          THEN Outcome("pass", calculate_confidence_tier(d, latest, TRUE, t))
          ELSE IF after = 0 THEN Outcome("pass", 9)
          ELSE Outcome("fail", 7)

verify_data_exposure(d, scan, latest, t) ==
  IF latest = {} THEN Outcome("unknown", 2)
  ELSE LET before == Len(SelectSeq(SignalsOf(scan), IsDataExposure))
           after == Len(SelectSeq(SignalsOf(LatestOf(latest)), IsDataExposure))
       IN IF after < before
          THEN Outcome("pass", calculate_confidence_tier(d, latest, TRUE, t))
          ELSE IF after = 0 THEN Outcome("pass", 9)
          ELSE Outcome("fail", 7)

verify_network_issues(d, scan, latest, t) ==
  IF latest = {} THEN Outcome("unknown", 2)
  ELSE LET before == Len(SelectSeq(SignalsOf(scan), IsNetworkIssue))
           after == Len(SelectSeq(SignalsOf(LatestOf(latest)), IsNetworkIssue))
       IN IF after < before
          THEN Outcome("pass", calculate_confidence_tier(d, latest, TRUE, t))
          ELSE IF after = 0 THEN Outcome("pass", 9)
          ELSE Outcome("fail", 7)

VERIFICATION_RULES(d, scan, latest, probe, t) ==
  CASE d.action_id = "key-rotation" -> verify_key_rotation(d, scan, latest, probe, t)
    [] d.action_id = "patch-cves" -> verify_cve_patched(d, scan, latest, t)
    [] d.action_id = "update-tls" -> verify_tls_fixed(d, scan, latest, probe, t)
    [] d.action_id = "review-agents" -> verify_ai_agents(d, scan, latest, probe, t)
    [] d.action_id = "audit-data" -> verify_data_exposure(d, scan, latest, t)
    [] d.action_id = "review-network" -> verify_network_issues(d, scan, latest, t)
    [] OTHER -> Outcome("unknown", 4)

\* the comparison scan of a run: the latest scan of the domain after the
\* resolution, or after the decision's creation while it is not resolved
ComparisonScan(d, scan) ==
  Latest({s \in scans : /\ s.domain = scan.domain
                        /\ s.created_at > (IF d.resolved_at # NULL THEN d.resolved_at
                                           ELSE d.created_at)})

\* lines 462-476: what a run's result does to the decision
ApplyRun_AnyResult(d, run, latest, t) ==
  [d EXCEPT !.status = "verified",
            !.verified_at = t,
            !.confidence_score = run.confidence,
            !.verification_scan_id = IF latest # {} THEN LatestOf(latest).id ELSE @]

ApplyRun(d, run, latest, t) ==
  IF run.result = "pass"
  THEN [d EXCEPT !.status = "verified",
                 !.verified_at = t,
                 !.confidence_score = run.confidence,
                 !.verification_scan_id = IF latest # {} THEN LatestOf(latest).id ELSE @]
  ELSE d

\* POST /decisions/{decision_id}/verify
verify_decision(id, probe) ==
  IF id \notin DecIds
  THEN /\ lastResp' = [op |-> "verify", code |-> 404, id |-> id, result |-> "none",
                       confidence |-> NULL]
       /\ UNCHANGED <<now, scans, orgs, decisions, impacts, firstGen>>
  ELSE LET d == decisions[id]
           scan == TheScan(d.scan_id)
           latest == ComparisonScan(d, scan)
           run == VERIFICATION_RULES(d, scan, latest, probe, now)
       IN /\ decisions' = [decisions EXCEPT ![id] = ApplyRun(d, run, latest, now)]
          /\ lastResp' = [op |-> "verify", code |-> 200, id |-> id, result |-> run.result,
                          confidence |-> run.confidence]
          /\ UNCHANGED <<now, scans, orgs, impacts, firstGen>>

(***************************************************************************)
(* services/verification_service.py: auto-verification after a scan        *)
(***************************************************************************)
_check_signal_resolved_Never(action_id, new_scan) == FALSE

_check_signal_resolved(action_id, new_scan) ==
  CASE action_id = "key-rotation" -> AiKeysOf(new_scan) = 0
    [] action_id = "patch-cves" -> Len(SelectSeq(SignalsOf(new_scan), IsHighCve)) = 0
    [] action_id = "review-agents" -> AgentCount(AiToolsOf(new_scan)) = 0
    [] action_id = "audit-data" -> Len(SelectSeq(SignalsOf(new_scan), IsDataExposure)) = 0
    [] action_id = "update-tls" -> Len(SelectSeq(SignalsOf(new_scan), IsTlsIssue)) = 0
    [] action_id = "review-network" -> Len(SelectSeq(SignalsOf(new_scan), IsNetworkIssue)) = 0
    [] OTHER -> FALSE

\* the query of lines 44-48 and the skip of lines 61-62
AutoVerifyCandidate_AnyDomain(d, all_scans, new_scan) ==
  /\ d.status = "resolved"
  /\ d.verified_at = NULL
  /\ ~(d.resolved_at # NULL /\ d.resolved_at > new_scan.created_at)

AutoVerifyCandidate(d, all_scans, new_scan) ==
  /\ \E s \in all_scans : s.id = d.scan_id /\ s.domain = new_scan.domain
  /\ d.status = "resolved"
  /\ d.verified_at = NULL
  /\ ~(d.resolved_at # NULL /\ d.resolved_at > new_scan.created_at)

auto_verify_decisions_for_scan(decs, all_scans, new_scan, t) ==
  [i \in 1..Len(decs) |->
     IF AutoVerifyCandidate(decs[i], all_scans, new_scan)
        /\ _check_signal_resolved(decs[i].action_id, new_scan)
     THEN [decs[i] EXCEPT !.status = "verified",
                          !.verified_at = t,
                          !.verification_scan_id = new_scan.id,
                          !.confidence_score = 10]
     ELSE decs[i]]

(***************************************************************************)
(* routes/scan.py: POST /scan/vendor                                       *)
(***************************************************************************)
AiOutcomes == {"ok"}

\* the ScanAI row left by ai_scan_for_scan: the detected data, the minimal
\* fallback entry, or no row when the fallback fails as well
ScanAiRow(outcome) ==
  CASE outcome = "ok" -> "full" [] outcome = "fallback" -> "empty" [] OTHER -> "none"

ScanRow(id, dom, inp, t, outcome) ==
  [id |-> id, domain |-> dom, org_id |-> dom, input |-> inp, created_at |-> t,
   ai |-> ScanAiRow(outcome)]

\* Organization defaults: plan free, scans_this_month 0, scans_limit 10
FREE_SCANS_LIMIT == 10

NewOrganization(dom) ==
  [id |-> dom, plan |-> "free", scans_this_month |-> 0, scans_limit |-> FREE_SCANS_LIMIT]

\* lines 208-218 and 269-271: the organisation of the domain is looked up and
\* created when missing; the rollback of a failed write undoes the creation.
\* Nothing in the handler reads or changes scans_this_month.
GetOrCreateOrg(all_orgs, dom, dbFails) ==
  IF (\E o \in all_orgs : o.id = dom) \/ dbFails THEN all_orgs
  ELSE all_orgs \cup {NewOrganization(dom)}

PersistScan_NoRollback(all_scans, row, dbFails) == all_scans \cup {row}

\* lines 223-271: the Scan row is added and flushed; a database error rolls
\* the session back and the handler goes on to return the result
PersistScan(all_scans, row, dbFails) ==
  IF dbFails THEN all_scans ELSE all_scans \cup {row}

\* uuid4 of line 192: an id no persisted scan has.  The id of a scan that was
\* not persisted is referenced by nothing but the response that returned it.
NewScanId == Cardinality(scans) + 1

scan_vendor(dom, inp, dbFails, aiOutcome) ==
  LET row == ScanRow(NewScanId, dom, inp, now + HOURS_DAILY, aiOutcome)
      persisted == PersistScan(scans, row, dbFails)
  IN /\ NewScanId <= MaxScans
     /\ scans' = persisted
     /\ orgs' = GetOrCreateOrg(orgs, dom, dbFails)
     /\ decisions' = IF dbFails THEN decisions
                     ELSE auto_verify_decisions_for_scan(decisions, persisted, row,
                                                         now + 2 * HOURS_DAILY)
     /\ now' = IF dbFails THEN now ELSE now + 2 * HOURS_DAILY
     /\ lastResp' = [op |-> "scan_vendor", code |-> 200, id |-> row.id,
                     db_failed |-> dbFails]
     /\ UNCHANGED <<impacts, firstGen>>

(***************************************************************************)
(* routes/assets.py, services/connector_service.py and                     *)
(* services/scheduler.py.  Times are hours on the clock aclock; an asset's *)
(* id is its position in assets.  A text column that is None is "".        *)
(***************************************************************************)
valid_types == {"domain", "github_org", "cloud_account", "saas_vendor"}
valid_frequencies == {"daily", "weekly", "monthly", "manual"}

AssetIds == 1..Len(assets)

\* routes/assets.py: None for manual
calculate_next_scan(frequency, t) ==
  CASE frequency = "daily" -> t + HOURS_DAILY
    [] frequency = "weekly" -> t + HOURS_WEEKLY
    [] frequency = "monthly" -> t + HOURS_MONTHLY
    [] OTHER -> NULL

\* services/scheduler.py: a year ahead for manual or unknown
calculate_next_run(frequency, t) ==
  CASE frequency = "daily" -> t + HOURS_DAILY
    [] frequency = "weekly" -> t + HOURS_WEEKLY
    [] frequency = "monthly" -> t + HOURS_MONTHLY
    [] OTHER -> t + HOURS_YEAR

NewAsset(type, frequency, next) ==
  [type |-> type, scan_frequency |-> frequency, status |-> "active",
   last_scan_at |-> NULL, next_scan_at |-> next, last_risk_score |-> NULL]

NewSchedule(asset_id, frequency, next) ==
  [asset_id |-> asset_id, frequency |-> frequency, next_run_at |-> next,
   last_run_at |-> NULL, last_scan_id |-> NULL, status |-> "active",
   run_count |-> 0, error_count |-> 0, last_error |-> ""]

\* the first schedule of an asset, as a set holding at most one position
FirstSchedule(scheds, asset_id) ==
  LET found == {k \in 1..Len(scheds) : scheds[k].asset_id = asset_id}
  IN {k \in found : \A j \in found : k <= j}

FirstActiveSchedule(scheds, asset_id) ==
  LET found == {k \in 1..Len(scheds) :
                  scheds[k].asset_id = asset_id /\ scheds[k].status = "active"}
  IN {k \in found : \A j \in found : k <= j}

NoTick == [op |-> "none"]

\* POST /org/{org_id}/assets.  The schedule of a non-manual asset is built
\* with asset_id = new_asset.id before any flush, when the column default has
\* not run and the id is still None: the commit violates the NOT NULL
\* constraint of scan_schedules.asset_id and nothing is persisted
create_asset(type, frequency) ==
  IF type \notin valid_types \/ frequency \notin valid_frequencies
  THEN /\ lastTick' = NoTick
       /\ UNCHANGED <<aclock, assets, schedules>>
  ELSE IF \E i \in AssetIds : assets[i].type = type /\ assets[i].status # "deleted"
  THEN /\ lastTick' = NoTick
       /\ UNCHANGED <<aclock, assets, schedules>>
  ELSE IF frequency # "manual"
  THEN /\ lastTick' = NoTick
       /\ UNCHANGED <<aclock, assets, schedules>>
  ELSE /\ Len(assets) < MaxAssets
       /\ assets' = Append(assets, NewAsset(type, frequency,
                                            calculate_next_scan(frequency, aclock)))
       /\ lastTick' = NoTick
       /\ UNCHANGED <<aclock, schedules>>

\* PUT /org/{org_id}/assets/{asset_id}; "" is a field the request leaves unset
update_asset(id, frequency, status) ==
  IF id \notin AssetIds
  THEN /\ lastTick' = NoTick
       /\ UNCHANGED <<aclock, assets, schedules>>
  ELSE IF frequency # "" /\ frequency \notin valid_frequencies
  THEN /\ lastTick' = NoTick
       /\ UNCHANGED <<aclock, assets, schedules>>
  ELSE
    LET a == assets[id]
        next == calculate_next_scan(frequency, aclock)
        a1 == IF frequency # ""
              THEN [a EXCEPT !.next_scan_at = next, !.scan_frequency = frequency] ELSE a
        a2 == IF status # "" THEN [a1 EXCEPT !.status = status] ELSE a1
        sched == FirstSchedule(schedules, id)
        scheds == IF frequency = "" THEN schedules
                  ELSE IF frequency = "manual"
                  THEN [k \in 1..Len(schedules) |->
                          IF k \in sched THEN [schedules[k] EXCEPT !.status = "paused"]
                          ELSE schedules[k]]
                  ELSE IF sched # {}
                  THEN [k \in 1..Len(schedules) |->
                          IF k \in sched
                          THEN [schedules[k] EXCEPT !.frequency = frequency,
                                                    !.next_run_at = next,
                                                    !.status = "active"]
                          ELSE schedules[k]]
                  ELSE Append(schedules, NewSchedule(id, frequency, next))
    IN /\ assets' = [assets EXCEPT ![id] = a2]
       /\ schedules' = scheds
       /\ lastTick' = NoTick
       /\ UNCHANGED aclock

\* sync_github_connector, lines 264-286: a repository that has no asset yet
\* gets one with the column defaults: weekly, active, next_scan_at None
sync_github_connector ==
  IF \E i \in AssetIds : assets[i].type = "github_repo"
  THEN /\ lastTick' = NoTick
       /\ UNCHANGED <<aclock, assets, schedules>>
  ELSE /\ Len(assets) < MaxAssets
       /\ assets' = Append(assets, NewAsset("github_repo", "weekly", NULL))
       /\ lastTick' = NoTick
       /\ UNCHANGED <<aclock, schedules>>

\* run_due_scans, lines 73-77
DueAssets(t) ==
  {i \in AssetIds : /\ assets[i].status = "active"
                    /\ assets[i].next_scan_at # NULL
                    /\ assets[i].next_scan_at <= t
                    /\ assets[i].scan_frequency # "manual"}

\* trigger_asset_scan.  The domain branch imports perform_scan from
\* routes/scan.py, which defines no such name: the import raises before the
\* asset is touched.  No branch that completes runs a scan.
TriggerRaises(a) == a.type = "domain"

trigger_asset_scan(a, t) ==
  IF a.type \in {"github_org", "cloud_account", "saas_vendor"}
  THEN [a EXCEPT !.last_scan_at = t,
                 !.next_scan_at = calculate_next_run(a.scan_frequency, t)]
  ELSE a

\* lines 88-98: the error is recorded on the asset's active schedule
RecordError(scheds, asset_id) ==
  LET sched == FirstActiveSchedule(scheds, asset_id)
  IN [k \in 1..Len(scheds) |->
        IF k \in sched
        THEN [scheds[k] EXCEPT !.error_count = @ + 1, !.last_error = "ImportError"]
        ELSE scheds[k]]

\* the state of the loop of lines 85-98 over the due assets, in id order
LoopState(as, scheds, processed, halted) ==
  [assets |-> as, schedules |-> scheds, processed |-> processed, halted |-> halted]

RunOne_StopOnError(st, i, t) ==
  IF st.halted THEN st
  ELSE IF TriggerRaises(st.assets[i])
  THEN LoopState(st.assets, RecordError(st.schedules, i), st.processed \cup {i}, TRUE)
  ELSE LoopState([st.assets EXCEPT ![i] = trigger_asset_scan(@, t)], st.schedules,
                 st.processed \cup {i}, FALSE)

RunOne_UpdateOnError(st, i, t) ==
  IF TriggerRaises(st.assets[i])
  THEN LoopState([st.assets EXCEPT ![i] =
                    [st.assets[i] EXCEPT
                       !.last_scan_at = t,
                       !.next_scan_at = calculate_next_run(st.assets[i].scan_frequency, t)]],
                 RecordError(st.schedules, i), st.processed \cup {i}, FALSE)
  ELSE LoopState([st.assets EXCEPT ![i] = trigger_asset_scan(@, t)], st.schedules,
                 st.processed \cup {i}, FALSE)

RunOne(st, i, t) ==
  IF TriggerRaises(st.assets[i])
  THEN LoopState(st.assets, RecordError(st.schedules, i), st.processed \cup {i}, FALSE)
  ELSE LoopState([st.assets EXCEPT ![i] = trigger_asset_scan(@, t)], st.schedules,
                 st.processed \cup {i}, FALSE)

RECURSIVE RunLoop(_, _, _, _)
RunLoop(st, i, due, t) ==
  IF i > Len(st.assets) THEN st
  ELSE RunLoop(IF i \in due THEN RunOne(st, i, t) ELSE st, i + 1, due, t)

\* one scheduler tick
run_due_scans ==
  LET due == DueAssets(aclock)
      done == RunLoop(LoopState(assets, schedules, {}, FALSE), 1, due, aclock)
  IN /\ \A k \in 1..Len(schedules) : schedules[k].error_count < MaxErrorCount
     /\ assets' = done.assets
     /\ schedules' = done.schedules
     /\ lastTick' = [op |-> "tick", at |-> aclock, due |-> due,
                     processed |-> done.processed,
                     raised |-> {i \in due : TriggerRaises(assets[i])},
                     scanned |-> {}]
     /\ UNCHANGED aclock

Advances == {24, 27}

AdvanceClock(d) ==
  /\ aclock + d <= MaxHours
  /\ aclock' = aclock + d
  /\ lastTick' = NoTick
  /\ UNCHANGED <<assets, schedules>>

AssetInit ==
  /\ aclock = 0
  /\ assets = <<>>
  /\ schedules = <<>>
  /\ lastTick = NoTick

(***************************************************************************)
(* services/webhook_service.py.  emit_event and test_webhook are           *)
(* coroutines; emitter is the position of the one that is running, and a   *)
(* step ends at each await of deliver_webhook (the POST and the backoff    *)
(* sleep).  posts is the log of the POSTs made for a delivery.             *)
(***************************************************************************)
DEFAULT_MAX_RETRIES == 3
TEST_MAX_RETRIES == 1

\* the webhooks of the organisation
Webhooks ==
  << [enabled |-> TRUE, events |-> {"decision.created", "decision.verified"}],
     [enabled |-> TRUE, events |-> {"decision.created"}],
     [enabled |-> FALSE, events |-> {"decision.created", "decision.verified"}] >>

WebhookIds == 1..Len(Webhooks)

\* emit_event, lines 268-275
Subscribed(event_type) ==
  {w \in WebhookIds : Webhooks[w].enabled /\ event_type \in Webhooks[w].events}

Response(code) == [kind |-> "response", code |-> code]
Timeout == [kind |-> "timeout", code |-> NULL]
PostOutcomes == {Response(200), Response(500), Timeout}

NoError == <<>>

Is2xx_AnyResponse(code) == code # NULL

Is2xx(code) == 200 <= code /\ code < 300

\* deliver_webhook, lines 175-183
NewDelivery(webhook_id, event_type, max_retries) ==
  [webhook_id |-> webhook_id, event_type |-> event_type, status |-> "pending",
   attempts |-> 0, max_attempts |-> max_retries, response_code |-> NULL,
   error |-> NoError, posts |-> <<>>]

Idle == [pc |-> "idle"]

Running(pc, caller, event_type, idx, cur, attempt, max_retries, last_error) ==
  [pc |-> pc, caller |-> caller, event_type |-> event_type, idx |-> idx,
   cur |-> cur, attempt |-> attempt, max_retries |-> max_retries,
   last_error |-> last_error]

\* where the caller of deliver_webhook goes on when it returns
AfterDeliver(em) ==
  IF em.caller = "emit"
  THEN Running("loop", "emit", em.event_type, em.idx + 1, 0, 0, em.max_retries, NoError)
  ELSE Idle

\* emit_event is called: the query of lines 268-271
emit_event(event_type) ==
  /\ emitter.pc = "idle"
  /\ Len(deliveries) + Cardinality(Subscribed(event_type)) <= MaxDeliveries
  /\ emitter' = Running("loop", "emit", event_type, 1, 0, 0, DEFAULT_MAX_RETRIES, NoError)
  /\ UNCHANGED deliveries

\* the loop of lines 274-280 up to the next call of deliver_webhook, which
\* adds the pending delivery row, or up to the return
emit_next ==
  /\ emitter.pc = "loop"
  /\ LET rest == {w \in Subscribed(emitter.event_type) : w >= emitter.idx}
     IN IF rest = {}
        THEN /\ emitter' = Idle
             /\ UNCHANGED deliveries
        ELSE LET w == CHOOSE x \in rest : \A y \in rest : x <= y
             IN /\ deliveries' = Append(deliveries,
                                        NewDelivery(w, emitter.event_type, emitter.max_retries))
                /\ emitter' = Running("post", "emit", emitter.event_type, w,
                                      Len(deliveries) + 1, 1, emitter.max_retries, NoError)

\* test_webhook: one delivery with max_retries = 1
test_webhook(w) ==
  /\ emitter.pc = "idle"
  /\ Len(deliveries) < MaxDeliveries
  /\ deliveries' = Append(deliveries, NewDelivery(w, "test", TEST_MAX_RETRIES))
  /\ emitter' = Running("post", "test", "test", w, Len(deliveries) + 1, 1,
                        TEST_MAX_RETRIES, NoError)

\* a POST to webhook w can be made now
PostEnabled(w) == emitter.pc = "post" /\ emitter.idx = w

\* one pass of the loop of lines 207-240: the POST and what follows it, up to
\* the backoff sleep or the return of deliver_webhook
deliver_attempt(w, outcome) ==
  /\ PostEnabled(w)
  /\ LET d == [deliveries[emitter.cur] EXCEPT
                 !.attempts = emitter.attempt,
                 !.posts = Append(@, outcome),
                 !.response_code = IF outcome.kind = "response" THEN outcome.code ELSE @]
         last_error == IF outcome.kind = "response" THEN <<"HTTP", outcome.code>>
                       ELSE <<"Request timeout">>
     IN IF outcome.kind = "response" /\ Is2xx(outcome.code)
        THEN /\ deliveries' = [deliveries EXCEPT ![emitter.cur] =
                                 [d EXCEPT !.status = "success"]]
             /\ emitter' = AfterDeliver(emitter)
        ELSE IF emitter.attempt < emitter.max_retries
        THEN /\ deliveries' = [deliveries EXCEPT ![emitter.cur] = d]
             /\ emitter' = [emitter EXCEPT !.pc = "sleep", !.last_error = last_error]
        ELSE /\ deliveries' = [deliveries EXCEPT ![emitter.cur] =
                                 [d EXCEPT !.status = "failed", !.error = last_error]]
             /\ emitter' = AfterDeliver(emitter)

\* the sleep of lines 242-245 ends and the next attempt begins
backoff_done ==
  /\ emitter.pc = "sleep"
  /\ emitter' = [emitter EXCEPT !.pc = "post", !.attempt = @ + 1]
  /\ UNCHANGED deliveries

WebhookInit ==
  /\ deliveries = <<>>
  /\ emitter = Idle

(***************************************************************************)
(* services/cache.py.  Every caller works in a session of its own          *)
(* (get_cache_session), so a caller sees the entries that were committed   *)
(* when it reads; `await fetcher()` is where a call is suspended and other *)
(* calls run.  A fetch is named by its number, which is also the value it  *)
(* returns; the adapters behind cached_signal_bundle (fetch_cves,          *)
(* fetch_ct_logs) catch their own errors and return a bundle whose signal  *)
(* reports the failure, kept here as the negated number.                   *)
(***************************************************************************)
\* cve_service.py 170-187, ctlog_service.py 41-55: what fetch n returns
FetchResults(n) == {n, 0 - n}

ReportsFailure(value) == value < 0

NoEntry == [present |-> FALSE, value |-> 0, expires_at |-> 0]

CacheInit ==
  /\ clock = 0
  /\ cache = [k \in Keys |-> NoEntry]
  /\ cpc = [c \in Callers |-> "idle"]
  /\ ckey = [c \in Callers |-> CHOOSE k \in Keys : TRUE]
  /\ cstart = [c \in Callers |-> 0]
  /\ cresult = [c \in Callers |-> 0]
  /\ fetchCount = 0

CacheHit_IgnoreExpiry(entry, t) == entry.present

\* lines 31 and 69: the entry exists and has not expired
CacheHit(entry, t) == entry.present /\ entry.expires_at > t

\* lines 28-41: read the entry; return it on a hit, else call the fetcher
CacheLookup(c, k) ==
  /\ cpc[c] = "idle"
  /\ ckey' = [ckey EXCEPT ![c] = k]
  /\ cstart' = [cstart EXCEPT ![c] = clock]
  /\ IF CacheHit(cache[k], clock)
     THEN /\ cresult' = [cresult EXCEPT ![c] = cache[k].value]
          /\ cpc' = [cpc EXCEPT ![c] = "done"]
          /\ UNCHANGED fetchCount
     ELSE /\ fetchCount < MaxFetches
          /\ fetchCount' = fetchCount + 1
          /\ \E data \in FetchResults(fetchCount + 1) :
               cresult' = [cresult EXCEPT ![c] = data]
          /\ cpc' = [cpc EXCEPT ![c] = "fetching"]
  /\ UNCHANGED <<clock, cache>>

\* lines 42-53: the fetcher has returned; store its result, expiring ttl
\* after the time read at the start of the call, and return it
CacheStore(c) ==
  /\ cpc[c] = "fetching"
  /\ cache' = [cache EXCEPT ![ckey[c]] =
                 [present |-> TRUE, value |-> cresult[c], expires_at |-> cstart[c] + TtlTicks]]
  /\ cpc' = [cpc EXCEPT ![c] = "done"]
  /\ UNCHANGED <<clock, ckey, cstart, cresult, fetchCount>>

\* the caller has its result and may call again
CacheReturn(c) ==
  /\ cpc[c] = "done"
  /\ cpc' = [cpc EXCEPT ![c] = "idle"]
  /\ UNCHANGED <<clock, cache, ckey, cstart, cresult, fetchCount>>

CacheTick ==
  /\ clock < MaxClock
  /\ clock' = clock + 1
  /\ UNCHANGED <<cache, cpc, ckey, cstart, cresult, fetchCount>>

LookupStep == (\E c \in Callers, k \in Keys : CacheLookup(c, k)) /\ UNCHANGED outsideCache
StoreStep == (\E c \in Callers : CacheStore(c)) /\ UNCHANGED outsideCache
ReturnStep == (\E c \in Callers : CacheReturn(c)) /\ UNCHANGED outsideCache
TickStep == CacheTick /\ UNCHANGED outsideCache

(***************************************************************************)
(* Specification of the decision lifecycle                                 *)
(***************************************************************************)
Requests == ValidStatuses \cup {"closed"}

ProbeInputs ==
  [probes : [dns : AdapterOutcomes, http : AdapterOutcomes \cup {"tokens"},
             tls : AdapterOutcomes, ct : AdapterOutcomes, otx : {"none", "finding"},
             cve : AdapterOutcomes \cup {"error"},
             github : AdapterOutcomes \cup {"error"}],
   github_org : {"", "acme"}]

NoCall == [code |-> 0]

ProbeIdle ==
  /\ pin = [probes |-> Quiet, github_org |-> ""]
  /\ pout = NoCall

LifecycleInit ==
  /\ now = 0
  /\ scans = {}
  /\ orgs = {}
  /\ decisions = <<>>
  /\ impacts = <<>>
  /\ lastResp = [op |-> "none", code |-> 0]
  /\ firstGen = [i \in 1..(MaxScans + 1) |-> <<>>]

Init ==
  /\ LifecycleInit
  /\ CacheInit
  /\ ProbeIdle
  /\ AssetInit
  /\ WebhookInit

ScanStep ==
  /\ \E dom \in Domains, inp \in InputIds, dbFails \in BOOLEAN :
       \E ai \in AiOutcomes :
         scan_vendor(dom, inp, dbFails, ai)
  /\ UNCHANGED outsideLifecycle

GenerateStep ==
  /\ \E sid \in 1..NewScanId : GenerateDecisions(sid)
  /\ UNCHANGED outsideLifecycle

PatchStep ==
  /\ \E id \in 1..(Len(decisions) + 1) :
       \E req \in (IF id \notin DecIds THEN {"resolved"}
                   ELSE IF id = 1 THEN Requests ELSE ValidStatuses) :
         \E raises \in (IF req = "resolved" THEN BOOLEAN ELSE {FALSE}) :
           update_decision_status(id, req, raises)
  /\ UNCHANGED outsideLifecycle

VerifyStep ==
  /\ \E id \in 1..(Len(decisions) + 1) :
       \E probe \in (IF id \in DecIds THEN Probes ELSE {Probe(TRUE, 0, FALSE, 0)}) :
         verify_decision(id, probe)
  /\ UNCHANGED outsideLifecycle

Next == ScanStep \/ GenerateStep \/ PatchStep \/ VerifyStep

Spec == Init /\ [][Next]_vars

CacheNext == LookupStep \/ StoreStep \/ ReturnStep \/ TickStep

CacheSpec == Init /\ [][CacheNext]_vars

(***************************************************************************)
(* Specification of the probe fan-out: one scan_vendor call over every     *)
(* combination of adapter outcomes                                         *)
(***************************************************************************)
ProbeInit ==
  /\ LifecycleInit
  /\ CacheInit
  /\ AssetInit
  /\ WebhookInit
  /\ pin \in ProbeInputs
  /\ pout = NoCall

ProbeStep ==
  /\ pout = NoCall
  /\ pout' = ProbeOutcome(pin.probes, pin.github_org)
  /\ UNCHANGED <<pin, outsideProbes>>

ProbeSpec == ProbeInit /\ [][ProbeStep]_vars

(***************************************************************************)
(* Specification of the pure functions: one call of                        *)
(* generate_decisions_for_scan over the signals a scan can hold, of        *)
(* calculate_confidence over after-scans around the seven-day boundary, or *)
(* of auto_verify_decisions_for_scan over decisions of two domains         *)
(***************************************************************************)
SignalPool ==
  <<CveHigh, HstsMissing, CspMissing, HeaderMissing, TlsHigh, DmarcMissing, CtChurn,
    make_service_error_signal("otx", "network")>>

PoolSignals(S) == SelectSeq(SignalPool, LAMBDA x : x \in {SignalPool[i] : i \in S})

RuleInputs ==
  [fn : {"generate"},
   signals : {PoolSignals(S) : S \in SUBSET (1..Len(SignalPool))},
   ai_keys : 0..1,
   ai_tools : {<<>>, <<"langchain">>, <<"openai">>}]

\* delay: the hours from resolved_at to the creation of the after-scan;
\* before and after: the input of the scan, 0 when there is no such scan
ConfidenceInputs ==
  [fn : {"confidence"},
   action_id : {"patch-cves", "key-rotation"},
   before : {0} \cup InputIds,
   after : {0} \cup InputIds,
   delay : {0 - 12, 48, 168, 180, 191, 192, 240}]

ResolvedAt == 2 * HOURS_DAILY

BeforeScanOf(inp) ==
  IF inp.before = 0 THEN {} ELSE {ScanRow(1, "a.com", inp.before, HOURS_DAILY, "ok")}

AfterScanOf(inp) ==
  IF inp.after = 0 THEN {}
  ELSE {ScanRow(2, "a.com", inp.after, ResolvedAt + inp.delay, "ok")}

\* the scans the decisions were generated from, one for each of two domains
OtherScans ==
  {ScanRow(1, "a.com", 2, HOURS_DAILY, "ok"), ScanRow(2, "b.com", 2, HOURS_DAILY, "ok")}

CompletedScan(inp) == ScanRow(3, "a.com", inp, 3 * HOURS_DAILY, "ok")

\* a decision as the PATCH handler leaves it: resolved_at is set in the status
\* resolved and cleared in pending, verified_at survives verified -> resolved
DecisionStates ==
  {[status |-> "pending", resolved_at |-> NULL, verified_at |-> NULL]}
    \cup [status : {"resolved"},
          resolved_at : {2 * HOURS_DAILY, 3 * HOURS_DAILY, 4 * HOURS_DAILY},
          verified_at : {NULL, 2 * HOURS_DAILY + 1}]
    \cup {[status |-> "verified", resolved_at |-> 2 * HOURS_DAILY,
           verified_at |-> 2 * HOURS_DAILY + 1]}

DecisionIn(sid, action_id, st) ==
  [NewDecision(sid, action_id, 0, HOURS_DAILY)
     EXCEPT !.status = st.status, !.resolved_at = st.resolved_at,
            !.verified_at = st.verified_at,
            !.verification_scan_id = IF st.status = "verified" THEN sid ELSE NULL]

AutoVerifyInputs ==
  [fn : {"auto_verify"},
   decs : {<<DecisionIn(1, a, st), DecisionIn(2, "patch-cves", st2)>> :
             a \in {"patch-cves", "key-rotation", "audit-ai-tools"},
             st \in DecisionStates,
             st2 \in {x \in DecisionStates : x.verified_at = NULL}},
   new_scan : InputIds]

\* webhook_service.py 137-149: the hex HMAC-SHA256 of the payload under the
\* secret, kept as the pair it is computed from, behind the prefix
compute_hmac_signature(payload, secret) == <<"sha256=", secret, payload>>

Text(s) == <<s>>

\* the custom headers a webhook may define (routes/webhooks.py stores them
\* as given): none, one of its own, or one named as a header the service sets
CustomHeaders ==
  {<<>>,
   [h \in {"X-Api-Key"} |-> Text("k")],
   [h \in {"X-ThreatVeil-Signature"} |-> Text("sha256=00")],
   [h \in {"User-Agent"} |-> Text("custom")]}

\* webhook_service.py 196-204: the service's headers, updated with the
\* webhook's own
RequestHeaders(secret, event_type, payload_bytes, custom) ==
  LET headers == [h \in {"Content-Type", "X-ThreatVeil-Event", "X-ThreatVeil-Signature",
                         "X-ThreatVeil-Delivery", "User-Agent"} |->
                    CASE h = "Content-Type" -> Text("application/json")
                      [] h = "X-ThreatVeil-Event" -> Text(event_type)
                      [] h = "X-ThreatVeil-Signature" ->
                           compute_hmac_signature(payload_bytes, secret)
                      [] h = "X-ThreatVeil-Delivery" -> Text("delivery.id")
                      [] h = "User-Agent" -> Text("ThreatVeil-Webhook/1.0")]
  IN [h \in DOMAIN headers \cup DOMAIN custom |->
        IF h \in DOMAIN custom THEN custom[h] ELSE headers[h]]

SignInputs ==
  [fn : {"deliver"},
   secret : {"s1", "s2"},
   event_type : {"scan.completed", "decision.verified"},
   payload_bytes : {"body1", "body2"},
   custom : CustomHeaders]

FunctionInputs == RuleInputs \cup ConfidenceInputs \cup AutoVerifyInputs \cup SignInputs

FunctionInit ==
  /\ LifecycleInit
  /\ CacheInit
  /\ AssetInit
  /\ WebhookInit
  /\ pin \in FunctionInputs
  /\ pout = NoCall

GenerateCall ==
  /\ pin.fn = "generate"
  /\ pout = NoCall
  /\ pout' = [code |-> 200,
              decisions |-> generate_decisions_for_scan(pin.signals, pin.ai_keys, pin.ai_tools)]
  /\ UNCHANGED <<pin, outsideProbes>>

ConfidenceCall ==
  /\ pin.fn = "confidence"
  /\ pout = NoCall
  /\ pout' = [code |-> 200,
              confidence |-> calculate_confidence(pin.action_id, BeforeScanOf(pin),
                                                  AfterScanOf(pin), ResolvedAt)]
  /\ UNCHANGED <<pin, outsideProbes>>

AutoVerifyCall ==
  /\ pin.fn = "auto_verify"
  /\ pout = NoCall
  /\ pout' = [code |-> 200,
              decisions |-> auto_verify_decisions_for_scan(
                              pin.decs, OtherScans \cup {CompletedScan(pin.new_scan)},
                              CompletedScan(pin.new_scan), 3 * HOURS_DAILY + 1)]
  /\ UNCHANGED <<pin, outsideProbes>>

\* webhook_service.py 185-218: what client.post sends
PostCall ==
  /\ pin.fn = "deliver"
  /\ pout = NoCall
  /\ pout' = [code |-> 200,
              content |-> pin.payload_bytes,
              headers |-> RequestHeaders(pin.secret, pin.event_type, pin.payload_bytes,
                                         pin.custom)]
  /\ UNCHANGED <<pin, outsideProbes>>

FunctionNext == GenerateCall \/ ConfidenceCall \/ AutoVerifyCall \/ PostCall

FunctionSpec == FunctionInit /\ [][FunctionNext]_vars

(***************************************************************************)
(* Specification of the database session of one request: of a scan_vendor  *)
(* call, whose session (db.py get_session) is shared by the handler, the   *)
(* AI sub-scan and the auto-verification and is committed when the request *)
(* ends, or of a PATCH to resolved, whose session is shared with the       *)
(* impact computation                                                      *)
(***************************************************************************)
\* What the call meets.  flush: the flush of the Scan row; ai: the AI
\* sub-scan detects ("ok"), raises outside the database and falls back to
\* the minimal ScanAI row ("error"), or fails in its flush ("db_error");
\* verify: the auto-verification verifies nothing ("none"), verifies and
\* commits ("verified"), raises before its commit ("error") or fails in its
\* commit ("db_error"); commit: the commit of get_session.
SessionInputs ==
  [fn : {"session"},
   flush : {"ok", "db_error"},
   ai : {"ok", "error", "db_error"},
   verify : {"none", "verified", "error", "db_error"},
   commit : {"ok", "db_error"}]

\* row: the Scan row is absent ("none"), flushed in the open transaction
\* ("flushed"), committed, or gone with a rolled back transaction ("lost");
\* session: "active", or "failed" after a database error, when every further
\* use raises until rollback; ai_saw and verify_saw: the row as it was when
\* the sub-step started.
SessionStart ==
  [code |-> 0, pc |-> "flush", row |-> "none", session |-> "active",
   ai_saw |-> "not_started", verify_saw |-> "not_started"]

\* What a PATCH that moves a decision to resolved meets.  from: the status
\* the decision has; impact: compute_decision_impact stores the impact and
\* commits ("ok"), raises before it writes ("error") or fails in its commit
\* ("db_error"); commit: the db.commit() of the handler.
PatchInputs ==
  [fn : {"patch"},
   from : {"pending", "accepted", "in_progress", "verified"},
   impact : {"ok", "error", "db_error"},
   commit : {"ok", "db_error"}]

\* row: the committed status and resolved_at of the decision; dirty: the
\* session holds the uncommitted change to resolved; impact: a DecisionImpact
\* row is committed
PatchStart(from) ==
  [code |-> 0, pc |-> "resolve", row |-> [status |-> from, resolved_at |-> NULL],
   dirty |-> FALSE, session |-> "active", impact |-> FALSE]

SessionInit ==
  /\ LifecycleInit
  /\ CacheInit
  /\ AssetInit
  /\ WebhookInit
  /\ \/ pin \in SessionInputs /\ pout = SessionStart
     \/ pin \in PatchInputs /\ pout = PatchStart(pin.from)

\* scan.py 222-247 and 269-271: db.add, db.flush; an error goes to the outer
\* handler, which rolls the session back
ScanFlush ==
  /\ pout.pc = "flush"
  /\ pout' = IF pin.flush = "ok"
             THEN [pout EXCEPT !.pc = "ai", !.row = "flushed"]
             ELSE [pout EXCEPT !.pc = "return"]
  /\ UNCHANGED <<pin, outsideProbes>>

\* scan.py 249-256: ai_scan_for_scan on the shared session, every exception
\* swallowed; a failed flush of the ScanAI row rolls the transaction back
AiSubScan ==
  /\ pout.pc = "ai"
  /\ pout' = IF pin.ai = "db_error"
             THEN [pout EXCEPT !.pc = "verify", !.ai_saw = pout.row,
                               !.row = "lost", !.session = "failed"]
             ELSE [pout EXCEPT !.pc = "verify", !.ai_saw = pout.row]
  /\ UNCHANGED <<pin, outsideProbes>>

\* scan.py 258-267 and verification_service.py 44-82: the query raises on a
\* failed session; db.commit() of line 82 commits the Scan row with the
\* verified decisions, or fails and rolls the transaction back
AutoVerify ==
  /\ pout.pc = "verify"
  /\ pout' = IF pout.session = "failed"
             THEN [pout EXCEPT !.pc = "return", !.verify_saw = pout.row]
             ELSE CASE pin.verify = "verified" ->
                         [pout EXCEPT !.pc = "return", !.verify_saw = pout.row,
                                      !.row = "committed"]
                    [] pin.verify = "db_error" ->
                         [pout EXCEPT !.pc = "return", !.verify_saw = pout.row,
                                      !.row = "lost", !.session = "failed"]
                    [] OTHER ->
                         [pout EXCEPT !.pc = "return", !.verify_saw = pout.row]
  /\ UNCHANGED <<pin, outsideProbes>>

\* scan.py 274-285: the handler returns the ScanResponse on every path
ScanReturn ==
  /\ pout.pc = "return"
  /\ pout' = [pout EXCEPT !.pc = "close", !.code = 200]
  /\ UNCHANGED <<pin, outsideProbes>>

\* db.py 85-93: session.commit() after the handler; it raises on a failed
\* session and the session is rolled back
SessionClose ==
  /\ pout.pc = "close"
  /\ pout' = IF pout.session = "active" /\ pout.row = "flushed"
             THEN [pout EXCEPT !.pc = "done",
                               !.row = IF pin.commit = "ok" THEN "committed" ELSE "lost"]
             ELSE [pout EXCEPT !.pc = "done"]
  /\ UNCHANGED <<pin, outsideProbes>>

\* decisions.py 332-347: status and resolved_at are assigned on the loaded
\* row; nothing is written yet (autoflush is off)
PatchResolve ==
  /\ pout.pc = "resolve"
  /\ pout' = [pout EXCEPT !.pc = "impact", !.dirty = TRUE]
  /\ UNCHANGED <<pin, outsideProbes>>

\* decisions.py 362-370: compute_decision_impact on the handler's session,
\* every exception swallowed.  Its db.commit() (impact_service.py 212, 232)
\* writes the pending change of the decision with the impact; when it fails
\* the transaction is rolled back and the loaded row is expired, so the
\* change is gone.
PatchImpact ==
  /\ pout.pc = "impact"
  /\ pout' = CASE pin.impact = "ok" ->
                    [pout EXCEPT !.pc = "commit", !.dirty = FALSE, !.impact = TRUE,
                                 !.row = [status |-> "resolved", resolved_at |-> 1]]
               [] pin.impact = "db_error" ->
                    [pout EXCEPT !.pc = "commit", !.dirty = FALSE, !.session = "failed"]
               [] OTHER -> [pout EXCEPT !.pc = "commit"]
  /\ UNCHANGED <<pin, outsideProbes>>

\* decisions.py 396-402: db.commit() and the response.  After a failed
\* commit inside the impact computation the session either raises again
\* (500) or has nothing left to write (200 with the row as it was).
PatchCommit ==
  /\ pout.pc = "commit"
  /\ \E code \in {200, 500} :
       pout' = IF pout.session = "failed" THEN [pout EXCEPT !.pc = "done", !.code = code]
               ELSE IF pout.dirty /\ pin.commit = "db_error"
               THEN [pout EXCEPT !.pc = "done", !.code = 500, !.dirty = FALSE]
               ELSE IF pout.dirty
               THEN [pout EXCEPT !.pc = "done", !.code = 200, !.dirty = FALSE,
                                 !.row = [status |-> "resolved", resolved_at |-> 1]]
               ELSE [pout EXCEPT !.pc = "done", !.code = 200]
  /\ UNCHANGED <<pin, outsideProbes>>

SessionNext ==
  \/ ScanFlush \/ AiSubScan \/ AutoVerify \/ ScanReturn \/ SessionClose
  \/ PatchResolve \/ PatchImpact \/ PatchCommit

SessionSpec == SessionInit /\ [][SessionNext]_vars


(***************************************************************************)
(* Specification of two requests that overlap on the database.  Every      *)
(* request works in a session of its own (db.py get_session); the rows are *)
(* shared through the database only, so a request served by another worker *)
(* may commit between a session's query and its commit.  Two cases: two    *)
(* POST /scans/{id}/decisions for one scan, and a PATCH step-back of a     *)
(* resolved decision beside the auto-verification of a new scan.  A commit *)
(* is an UPDATE of the columns the session changed on the row it loaded.   *)
(***************************************************************************)
Workers == {1, 2}

OverlapInputs ==
  [fn : {"overlap_generate"}, input : InputIds]
    \cup [fn : {"overlap_stepback"},
          action_id : {"patch-cves", "key-rotation", "audit-ai-tools"},
          resolved_at : {2 * HOURS_DAILY, 4 * HOURS_DAILY},
          req : {"pending", "in_progress"},
          new_scan : InputIds]

\* the scan the decisions are generated for
DecidedScan == ScanRow(1, "a.com", pin.input, HOURS_DAILY, "ok")

\* the resolved decision of a scan of a.com, before either request
ResolvedRow ==
  DecisionIn(1, pin.action_id,
             [status |-> "resolved", resolved_at |-> pin.resolved_at, verified_at |-> NULL])

OverlapStart(inp) ==
  IF inp.fn = "overlap_generate"
  THEN [rows |-> <<>>,
        w |-> [i \in Workers |-> [pc |-> "query", pending |-> <<>>]]]
  ELSE [row |-> DecisionIn(1, inp.action_id,
                           [status |-> "resolved", resolved_at |-> inp.resolved_at,
                            verified_at |-> NULL]),
        patch |-> [pc |-> "load", loaded |-> <<>>],
        verify |-> [pc |-> "query", loaded |-> <<>>]]

OverlapInit ==
  /\ LifecycleInit
  /\ CacheInit
  /\ AssetInit
  /\ WebhookInit
  /\ pin \in OverlapInputs
  /\ pout = OverlapStart(pin)

\* decisions.py 235-245: the check for decisions of the scan, and the rows
\* generated when there are none
GenerateQuery(i) ==
  /\ pin.fn = "overlap_generate"
  /\ pout.w[i].pc = "query"
  /\ LET existing == ExistingDecisions(pout.rows, DecidedScan.id)
         rows == RowsToInsert(existing, DecidedScan, 3 * HOURS_DAILY)
     IN pout' = [pout EXCEPT !.w[i] = [pc |-> "commit", pending |-> rows]]
  /\ UNCHANGED <<pin, outsideProbes>>

\* decisions.py 247-265: db.add of every generated row and db.commit();
\* the table has no unique constraint on (scan_id, action_id) (models.py
\* 374-377), so every INSERT is accepted
GenerateCommit(i) ==
  /\ pin.fn = "overlap_generate"
  /\ pout.w[i].pc = "commit"
  /\ pout' = [pout EXCEPT !.rows = @ \o pout.w[i].pending,
                          !.w[i] = [pc |-> "done", pending |-> <<>>]]
  /\ UNCHANGED <<pin, outsideProbes>>

\* the UPDATE a session issues at commit: the columns whose value differs
\* from the one loaded
UpdateChanged(row, loaded, modified) ==
  [f \in DOMAIN row |-> IF modified[f] # loaded[f] THEN modified[f] ELSE row[f]]

\* decisions.py 332-394: the assignments of a PATCH on the row it loaded
PatchedRow(d, req, t) ==
  LET old == d.status
      d1 == [d EXCEPT !.status = req]
      d2 == IF SetsAcceptedAt(req, old) THEN [d1 EXCEPT !.accepted_at = t] ELSE d1
      d3 == IF EntersResolved(req, old) THEN ResolveFields(d2, t) ELSE d2
      d4 == IF EntersVerified(req, old) THEN VerifyFields(d3, t) ELSE d3
  IN IF LeavesResolution(req, old) THEN ClearFields(d4) ELSE d4

\* verification_service.py 44-82 on one decision
AutoVerifiedRow(d) ==
  auto_verify_decisions_for_scan(<<d>>, OtherScans \cup {CompletedScan(pin.new_scan)},
                                 CompletedScan(pin.new_scan), 3 * HOURS_DAILY + 1)[1]

\* decisions.py 323-325: the PATCH loads the decision
StepBackLoad ==
  /\ pin.fn = "overlap_stepback"
  /\ pout.patch.pc = "load"
  /\ pout' = [pout EXCEPT !.patch = [pc |-> "commit", loaded |-> <<pout.row>>]]
  /\ UNCHANGED <<pin, outsideProbes>>

\* decisions.py 332-396: the assignments and db.commit()
StepBackCommit ==
  /\ pin.fn = "overlap_stepback"
  /\ pout.patch.pc = "commit"
  /\ LET loaded == pout.patch.loaded[1]
     IN pout' = [pout EXCEPT
                   !.row = UpdateChanged(@, loaded,
                                         PatchedRow(loaded, pin.req, 3 * HOURS_DAILY + 1)),
                   !.patch = [pc |-> "done", loaded |-> <<>>]]
  /\ UNCHANGED <<pin, outsideProbes>>

\* verification_service.py 44-48: the query for the resolved decisions of
\* the domain that are not verified
VerifyQuery ==
  /\ pin.fn = "overlap_stepback"
  /\ pout.verify.pc = "query"
  /\ pout' = [pout EXCEPT
                !.verify = IF pout.row.status = "resolved" /\ pout.row.verified_at = NULL
                           THEN [pc |-> "commit", loaded |-> <<pout.row>>]
                           ELSE [pc |-> "done", loaded |-> <<>>]]
  /\ UNCHANGED <<pin, outsideProbes>>

\* verification_service.py 59-80: the loop over the rows loaded, and
\* db.commit() when one was verified
VerifyCommit ==
  /\ pin.fn = "overlap_stepback"
  /\ pout.verify.pc = "commit"
  /\ LET loaded == pout.verify.loaded[1]
     IN pout' = [pout EXCEPT
                   !.row = UpdateChanged(@, loaded, AutoVerifiedRow(loaded)),
                   !.verify = [pc |-> "done", loaded |-> <<>>]]
  /\ UNCHANGED <<pin, outsideProbes>>

OverlapGenerateStep == \E i \in Workers : GenerateQuery(i) \/ GenerateCommit(i)

OverlapNext ==
  \/ OverlapGenerateStep
  \/ StepBackLoad \/ StepBackCommit
  \/ VerifyQuery \/ VerifyCommit

OverlapSpec == OverlapInit /\ [][OverlapNext]_vars

(***************************************************************************)
(* security.py: the per-IP rate limit of POST /scan/vendor.  The handler   *)
(* has no await, so a call runs to its end before another starts.  The     *)
(* state is kept in pout: the time in seconds, the deque of every client   *)
(* IP, every admitted request (ip, time) and the outcome of the last call. *)
(***************************************************************************)
RATE_LIMIT == 2
WINDOW_SECONDS == 60
MaxRequests == 5
MaxSeconds == 95

ClientIps == {"ip1", "ip2"}

\* lines 52-53: entries older than the window are popped from the left
RECURSIVE CleanOld(_, _)
CleanOld(bucket, window_start) ==
  IF bucket # <<>> /\ Head(bucket) < window_start
  THEN CleanOld(Tail(bucket), window_start)
  ELSE bucket

OverLimit_OffByOne(bucket) == Len(bucket) > RATE_LIMIT

\* line 55
OverLimit(bucket) == Len(bucket) >= RATE_LIMIT

RateStart ==
  [now |-> 0, _ip_requests |-> [ip \in ClientIps |-> <<>>], admitted |-> <<>>,
   calls |-> 0, ip |-> "", code |-> 0]

enforce_rate_limit(client_ip) ==
  LET bucket == CleanOld(pout._ip_requests[client_ip], pout.now - WINDOW_SECONDS)
  IN /\ pout.calls < MaxRequests
     /\ pout' = IF OverLimit(bucket)
                THEN [pout EXCEPT !._ip_requests[client_ip] = bucket,
                                  !.calls = @ + 1, !.ip = client_ip, !.code = 429]
                ELSE [pout EXCEPT !._ip_requests[client_ip] = Append(bucket, pout.now),
                                  !.admitted = Append(@, <<client_ip, pout.now>>),
                                  !.calls = @ + 1, !.ip = client_ip, !.code = 200]
     /\ UNCHANGED <<pin, outsideProbes>>

\* time.time() between two calls
RateAdvance(d) ==
  /\ pout.now + d <= MaxSeconds
  /\ pout' = [pout EXCEPT !.now = @ + d, !.ip = "", !.code = 0]
  /\ UNCHANGED <<pin, outsideProbes>>

RateInit ==
  /\ LifecycleInit
  /\ CacheInit
  /\ AssetInit
  /\ WebhookInit
  /\ pin = [fn |-> "rate_limit"]
  /\ pout = RateStart

RequestStep == \E ip \in ClientIps : enforce_rate_limit(ip)
ElapseStep == \E d \in {30, 31} : RateAdvance(d)

RateNext == RequestStep \/ ElapseStep

RateSpec == RateInit /\ [][RateNext]_vars

(***************************************************************************)
(* Specification of the assets and the scheduler                           *)
(***************************************************************************)
CreateStep ==
  /\ \E type \in {"domain", "saas_vendor", "vm"}, frequency \in {"manual", "daily"} :
       create_asset(type, frequency)
  /\ UNCHANGED outsideAssets

UpdateStep ==
  /\ \E id \in 1..(Len(assets) + 1) :
       \E frequency \in {"", "daily", "manual", "hourly"} :
         \E status \in (IF frequency = "" THEN {"paused"} ELSE {""}) :
           update_asset(id, frequency, status)
  /\ UNCHANGED outsideAssets

SyncStep == sync_github_connector /\ UNCHANGED outsideAssets

SchedulerStep == run_due_scans /\ UNCHANGED outsideAssets

ClockStep == (\E d \in Advances : AdvanceClock(d)) /\ UNCHANGED outsideAssets

AssetNext == CreateStep \/ UpdateStep \/ SyncStep \/ SchedulerStep \/ ClockStep

AssetSpec == Init /\ [][AssetNext]_vars

(***************************************************************************)
(* Specification of the webhook dispatcher                                 *)
(***************************************************************************)
EventTypes == {"decision.created", "decision.verified", "risk.score_changed"}

EmitStep == (\E event_type \in EventTypes : emit_event(event_type)) /\ UNCHANGED outsideWebhooks

EmitNextStep == emit_next /\ UNCHANGED outsideWebhooks

TestStep == (\E w \in WebhookIds : test_webhook(w)) /\ UNCHANGED outsideWebhooks

AttemptStep ==
  /\ \E w \in WebhookIds, outcome \in PostOutcomes : deliver_attempt(w, outcome)
  /\ UNCHANGED outsideWebhooks

BackoffStep == backoff_done /\ UNCHANGED outsideWebhooks

WebhookNext == EmitStep \/ EmitNextStep \/ TestStep \/ AttemptStep \/ BackoffStep

WebhookSpec == Init /\ [][WebhookNext]_vars

(***************************************************************************)
(* Properties of the decision lifecycle                                    *)
(***************************************************************************)
IsPatch(resp) == resp.op = "patch"
Closed == {"resolved", "verified"}

\* C1: every decision whose status is resolved or verified has a non-null
\* resolved_at, whatever sequence of generation, PATCH, verification runs and
\* auto-verification passes produced it
C1_ResolvedHasResolvedAt ==
  \A i \in DecIds : decisions[i].status \in Closed => decisions[i].resolved_at # NULL

\* C2: no operation moves a decision to verified from a status other than
\* resolved, so a verified decision has been resolved before
C2_VerifiedOnlyFromResolved ==
  [][\A i \in DecIds :
       (decisions'[i].status = "verified" /\ decisions[i].status # "verified")
         => decisions[i].status = "resolved"]_vars

ValidTransitions ==
  {<<"pending", "accepted">>, <<"pending", "in_progress">>, <<"pending", "resolved">>,
   <<"accepted", "in_progress">>, <<"accepted", "resolved">>,
   <<"in_progress", "resolved">>, <<"in_progress", "accepted">>,
   <<"resolved", "verified">>, <<"resolved", "in_progress">>,
   <<"verified", "resolved">>}

\* C3: a PATCH changes a decision's status from s to t only when (s, t) is one
\* of the listed valid transitions; any other pair leaves the status unchanged
C3_OnlyValidTransitions ==
  [][\A i \in DecIds :
       (IsPatch(lastResp') /\ decisions'[i].status # decisions[i].status)
         => <<decisions[i].status, decisions'[i].status>> \in ValidTransitions]_vars

\* C4: a PATCH that requests verified for a decision that is not resolved is
\* answered with 400 and changes neither the decision nor any other row
C4_VerifiedNeedsResolved ==
  [][(/\ IsPatch(lastResp')
      /\ lastResp'.req = "verified"
      /\ lastResp'.id \in DecIds
      /\ decisions[lastResp'.id].status # "resolved")
       => (lastResp'.code = 400 /\ decisions' = decisions /\ impacts' = impacts)]_vars

C4_Witness ==
  /\ IsPatch(lastResp) /\ lastResp.code = 400 /\ lastResp.req = "verified"
  /\ lastResp.id \in DecIds
  /\ decisions[lastResp.id].status \in {"pending", "accepted", "in_progress", "verified"}

\* C5: a PATCH that moves a decision from resolved or verified to a status
\* outside {resolved, verified} leaves resolved_at, verified_at, after_score
\* and verification_scan_id null and no DecisionImpact row for the decision
C5_RevertClears ==
  [][\A i \in DecIds :
       (/\ IsPatch(lastResp')
        /\ decisions[i].status \in Closed
        /\ decisions'[i].status \notin Closed)
         => (/\ decisions'[i].resolved_at = NULL
             /\ decisions'[i].verified_at = NULL
             /\ decisions'[i].after_score = NULL
             /\ decisions'[i].verification_scan_id = NULL
             /\ ImpactsOf(impacts', i) = {})]_vars

C5_Witness ==
  /\ IsPatch(lastResp) /\ lastResp.code = 200
  /\ lastResp.old = "verified" /\ lastResp.req \notin Closed
  /\ decisions[lastResp.id].resolved_at = NULL
  /\ decisions[lastResp.id].verified_at = NULL
  /\ ImpactsOf(impacts, lastResp.id) = {}

\* C6: a PATCH that changes the status to accepted, resolved or verified sets
\* accepted_at, resolved_at or verified_at respectively, from whatever status
\* the decision comes
C6_EnteringSetsTimestamp ==
  (IsPatch(lastResp) /\ lastResp.code = 200 /\ lastResp.old # lastResp.req)
    => LET d == decisions[lastResp.id]
       IN /\ lastResp.req = "accepted" => d.accepted_at = now
          /\ lastResp.req = "resolved" => d.resolved_at = now
          /\ lastResp.req = "verified" => d.verified_at = now

\* C7: a decision never has more than one DecisionImpact row; resolving it
\* again updates the row it has
C7_AtMostOneImpact ==
  \A i \in DecIds : Cardinality(ImpactsOf(impacts, i)) <= 1

C7_Witness ==
  /\ IsPatch(lastResp) /\ lastResp.code = 200
  /\ lastResp.old = "verified" /\ lastResp.req = "resolved"
  /\ Cardinality(ImpactsOf(impacts, lastResp.id)) = 1
  /\ impacts[CHOOSE j \in ImpactsOf(impacts, lastResp.id) : TRUE].risk_after # NULL

\* C8: a repeated POST /scans/{id}/decisions returns the decisions of the
\* first call, with the same ids and priorities, and inserts no row
C8_GenerateIdempotent ==
  [][(/\ lastResp'.op = "generate"
      /\ lastResp'.code = 200
      /\ firstGen[lastResp'.id] # <<>>)
       => (/\ lastResp'.listed = firstGen[lastResp'.id][1]
           /\ Len(decisions') = Len(decisions))]_vars

C8_Witness ==
  /\ lastResp.op = "generate" /\ lastResp.code = 200 /\ lastResp.again
  /\ lastResp.listed # {}
  /\ lastResp.listed = firstGen[lastResp.id][1]

ConfidenceTiers == {2, 4, 7, 10}

\* C26: the confidence of every verification run (which a passing run copies
\* onto the decision) and of every DecisionImpact row is one of 0.2, 0.4,
\* 0.7 and 1.0.
C26_ConfidenceIsATier ==
  /\ (lastResp.op = "verify" /\ lastResp.code = 200)
       => lastResp.confidence \in ConfidenceTiers
  /\ \A j \in 1..Len(impacts) : impacts[j].confidence \in ConfidenceTiers

\* C30: the verification_scan_id of a verified decision that has a
\* resolved_at, when set, names a scan of the decision's domain that was
\* created strictly after the decision's current resolved_at.
C30_VerificationScanFollowsResolution ==
  \A i \in DecIds :
    (/\ decisions[i].status = "verified"
     /\ decisions[i].verification_scan_id # NULL
     /\ decisions[i].resolved_at # NULL)
      => \E s \in ScanById(decisions[i].verification_scan_id) :
           /\ \E o \in ScanById(decisions[i].scan_id) : o.domain = s.domain
           /\ s.created_at > decisions[i].resolved_at

CveCount(scan) == Len(SelectSeq(SignalsOf(scan), IsCveTagged))

\* a resolved, never verified patch-cves decision from a scan with two
\* high-severity CVE signals, and a scan b of the same domain, created two
\* days after that scan, without CVE signals
CvesPatched(d, b) ==
  /\ d.action_id = "patch-cves"
  /\ d.status = "resolved"
  /\ d.verified_at = NULL
  /\ \E a \in ScanById(d.scan_id) :
       /\ Len(SelectSeq(SignalsOf(a), IsHighCve)) = 2
       /\ CveCount(a) = 2
       /\ b.domain = a.domain
       /\ b.created_at = a.created_at + 2 * HOURS_DAILY
  /\ CveCount(b) = 0
  /\ Len(SelectSeq(SignalsOf(b), IsHighCve)) = 0

C33_VerifiedAtOnlyWhileVerified ==
  \A i \in DecIds :
    decisions[i].status # "verified"
      => (decisions[i].verified_at = NULL /\ decisions[i].verification_scan_id = NULL)

\* C34: a verification run whose result is fail or unknown leaves the
\* decision's status, verified_at and verification_scan_id unchanged; the
\* run changes them only when its result is pass.
C34_OnlyPassChangesLifecycle ==
  [][(lastResp'.op = "verify" /\ lastResp'.code = 200)
       => \A i \in DecIds :
            (\/ i # lastResp'.id
             \/ lastResp'.result \in {"fail", "unknown"})
              => (/\ decisions'[i].status = decisions[i].status
                  /\ decisions'[i].verified_at = decisions[i].verified_at
                  /\ decisions'[i].verification_scan_id = decisions[i].verification_scan_id)]_vars

\* a failed run on a resolved decision that stayed resolved
C34_Witness ==
  /\ lastResp.op = "verify"
  /\ lastResp.code = 200
  /\ lastResp.result = "fail"
  /\ decisions[lastResp.id].status = "resolved"
  /\ decisions[lastResp.id].verified_at = NULL

(***************************************************************************)
(* Properties of the decision rules                                        *)
(***************************************************************************)
ActionIds ==
  {"key-rotation", "patch-cves", "review-agents", "audit-data", "update-tls",
   "review-network", "audit-ai-tools"}

\* the rules whose condition holds for the signals and the AI findings
Triggered(signals, ai_keys, ai_tools) ==
  {a \in ActionIds :
     CASE a = "key-rotation" -> ai_keys > 0
       [] a = "patch-cves" -> \E i \in 1..Len(signals) : IsHighCve(signals[i])
       [] a = "review-agents" -> \E i \in 1..Len(ai_tools) : ai_tools[i] \in AgentTools
       [] a = "audit-data" -> \E i \in 1..Len(signals) : IsDataExposure(signals[i])
       [] a = "update-tls" -> \E i \in 1..Len(signals) : IsTlsIssue(signals[i])
       [] a = "review-network" -> \E i \in 1..Len(signals) : IsNetworkIssue(signals[i])
       [] a = "audit-ai-tools" -> ai_tools # <<>>}

TriggeredNow == Triggered(pin.signals, pin.ai_keys, pin.ai_tools)

Generated == pin.fn = "generate" /\ pout # NoCall

\* C23: generate_decisions_for_scan returns at most three decisions, in
\* strictly ascending priority, and they are exactly the highest-priority
\* triggered rules; it returns the empty list when no rule is triggered.
C23_TopThreeByPriority ==
  Generated =>
    LET out == pout.decisions
    IN /\ Len(out) = Min(3, Cardinality(TriggeredNow))
       /\ \A i \in 1..Len(out) : out[i] \in TriggeredNow
       /\ \A i, j \in 1..Len(out) : i < j => Priority(out[i]) < Priority(out[j])
       /\ \A a \in TriggeredNow :
            (\A i \in 1..Len(out) : out[i] # a)
              => \A i \in 1..Len(out) : Priority(out[i]) < Priority(a)
       /\ (TriggeredNow = {} => out = <<>>)

\* more than three rules triggered, the network rule among them
C23_Witness ==
  /\ Generated
  /\ Cardinality(TriggeredNow) > 3
  /\ "review-network" \in TriggeredNow
  /\ Len(pout.decisions) = 3

\* one leaked AI key, the tool langchain and signals that trigger no rule
KeyLeakAndAgent ==
  /\ Generated
  /\ pin.ai_keys = 1
  /\ pin.ai_tools = <<"langchain">>
  /\ TriggeredNow \cap {"patch-cves", "audit-data", "update-tls", "review-network"} = {}

\* C24 as stated: a leaked AI key and the tool langchain, with no other rule
\* triggered by the signals, give exactly key-rotation then review-agents.
C24_KeyRotationThenReviewAgents ==
  KeyLeakAndAgent => pout.decisions = <<"key-rotation", "review-agents">>

\* C24 amended: they give key-rotation, review-agents and audit-ai-tools, in
\* that order, because the presence of any AI tool triggers audit-ai-tools
\* while fewer than three decisions are collected.
C24_KeyRotationAgentsAndAudit ==
  KeyLeakAndAgent => pout.decisions = <<"key-rotation", "review-agents", "audit-ai-tools">>

C24_Witness ==
  /\ KeyLeakAndAgent
  /\ pin.signals = <<HeaderMissing>>
  /\ Len(pout.decisions) = 3

\* C25: a scan whose only findings are the missing HSTS and CSP headers
\* yields no decisions.
C25_MissingHeadersYieldNoDecision ==
  (/\ Generated
   /\ pin.signals = <<HstsMissing, CspMissing>>
   /\ pin.ai_keys = 0
   /\ pin.ai_tools = <<>>)
    => pout.decisions = <<>>

(***************************************************************************)
(* Properties of the impact confidence and of the auto-verification        *)
(***************************************************************************)
Measured == pin.fn = "confidence" /\ pout # NoCall

\* the count of the signals that trigger the decision strictly decreased
\* from the before-scan to the after-scan
SignalCountDecreased ==
  /\ pin.before # 0
  /\ pin.after # 0
  /\ _check_signal_disappeared(pin.action_id, LatestOf(BeforeScanOf(pin)),
                               LatestOf(AfterScanOf(pin)))

\* C27: calculate_confidence returns 0.2 without an after-scan, 0.4 whenever
\* the after-scan was created more than 7 days after resolved_at, and
\* otherwise (7 days included) 1.0 if the count of triggering signals
\* strictly decreased, else 0.7.
C27_ConfidenceByDelay ==
  Measured =>
    pout.confidence =
      (IF pin.after = 0 THEN 2
       ELSE IF pin.delay > SEVEN_DAYS * HOURS_DAILY THEN 4
       ELSE IF SignalCountDecreased THEN 10 ELSE 7)

AutoVerified == pin.fn = "auto_verify" /\ pout # NoCall

\* a decision of the completed scan's domain with status resolved, no
\* verified_at and a resolved_at not after the scan's created_at
Eligible(d) ==
  /\ \E s \in OtherScans : s.id = d.scan_id /\ s.domain = CompletedScan(pin.new_scan).domain
  /\ d.status = "resolved"
  /\ d.verified_at = NULL
  /\ d.resolved_at <= CompletedScan(pin.new_scan).created_at

\* C28: auto_verify_decisions_for_scan changes only eligible decisions whose
\* rule passes on the completed scan: each becomes verified with
\* confidence_score 1.0 and verification_scan_id equal to the scan's id; no
\* other decision is changed, and audit-ai-tools is never auto-verified.
C28_AutoVerifyOnlyEligible ==
  AutoVerified =>
    \A i \in 1..Len(pin.decs) :
      LET d == pin.decs[i]
          e == pout.decisions[i]
      IN IF /\ Eligible(d)
            /\ d.action_id # "audit-ai-tools"
            /\ _check_signal_resolved(d.action_id, CompletedScan(pin.new_scan))
         THEN /\ e.status = "verified"
              /\ e.confidence_score = 10
              /\ e.verification_scan_id = CompletedScan(pin.new_scan).id
              /\ e.verified_at # NULL
              /\ [e EXCEPT !.status = d.status, !.confidence_score = d.confidence_score,
                           !.verification_scan_id = d.verification_scan_id,
                           !.verified_at = d.verified_at] = d
         ELSE e = d

\* a decision of the scan's domain is verified while a resolved decision of
\* the other domain, for the same rule, is left alone
C28_Witness ==
  /\ AutoVerified
  /\ Eligible(pin.decs[1])
  /\ pin.decs[1].resolved_at = CompletedScan(pin.new_scan).created_at
  /\ pout.decisions[1].status = "verified"
  /\ pin.decs[2].status = "resolved"
  /\ pin.decs[2].resolved_at < CompletedScan(pin.new_scan).created_at
  /\ pout.decisions[2] = pin.decs[2]

(***************************************************************************)
(* Properties of the scan's database session                               *)
(***************************************************************************)
\* C21: within one scan, the AI sub-scan and the auto-verification start
\* only after the Scan row has been committed.
C21_SubStepsAfterCommit ==
  pin.fn = "session" =>
    /\ pout.ai_saw \in {"not_started", "committed"}
    /\ pout.verify_saw \in {"not_started", "committed"}

\* C22: when the Scan row was flushed and the request's own commit works, an
\* exception raised by the AI sub-scan or by the auto-verification does not
\* fail the scan: scan_vendor returns 200 and the Scan row is persisted.
C22_SubStepErrorsKeepScan ==
  (/\ pin.fn = "session"
   /\ pout.pc = "done"
   /\ pin.flush = "ok"
   /\ pin.commit = "ok"
   /\ (pin.ai \in {"error", "db_error"} \/ pin.verify \in {"error", "db_error"}))
    => (pout.code = 200 /\ pout.row = "committed")

(***************************************************************************)
(* Properties of the webhook signature                                     *)
(***************************************************************************)
\* C39: the X-ThreatVeil-Signature header of a webhook POST is "sha256="
\* followed by the hex HMAC-SHA256 of the body bytes sent, keyed with the
\* webhook's secret, whatever custom headers the webhook defines.
C39_SignatureCoversBody ==
  (pin.fn = "deliver" /\ pout # NoCall)
    => pout.headers["X-ThreatVeil-Signature"]
         = compute_hmac_signature(pout.content, pin.secret)

(***************************************************************************)
(* Properties of the rate limit                                            *)
(***************************************************************************)
\* the requests of ip admitted at a time in [from, to)
AdmittedIn(st, ip, from, to) ==
  {i \in 1..Len(st.admitted) :
     st.admitted[i][1] = ip /\ from <= st.admitted[i][2] /\ st.admitted[i][2] < to}

\* C40: for every client IP and every 60-second window at most RATE_LIMIT
\* requests are admitted; a request that arrives when RATE_LIMIT requests of
\* its IP were admitted in the last 60 seconds is rejected with 429 and is
\* not counted.
C40_AtMostRateLimitPerWindow ==
  [][/\ \A ip \in ClientIps, w \in 0..MaxSeconds :
          Cardinality(AdmittedIn(pout', ip, w, w + WINDOW_SECONDS)) <= RATE_LIMIT
     /\ \A ip \in ClientIps :
          (/\ pout'.calls = pout.calls + 1
           /\ pout'.ip = ip
           /\ Cardinality(AdmittedIn(pout, ip, pout.now - WINDOW_SECONDS, pout.now + 1))
                >= RATE_LIMIT)
            => (/\ pout'.code = 429
                /\ pout'.admitted = pout.admitted
                /\ Len(pout'._ip_requests[ip]) = RATE_LIMIT)]_vars

\* a request was rejected while the window of its IP was full, and a request
\* of the same IP was admitted again after the window had moved on
C40_Witness ==
  /\ pout.code = 200
  /\ pout.calls > Len(pout.admitted)
  /\ Cardinality(AdmittedIn(pout, pout.ip, 0, MaxSeconds + 1)) > RATE_LIMIT

\* C31: if the impact computation raises while a decision is moved to
\* resolved and the handler's own commit works, the PATCH still succeeds:
\* the response is 200 and the decision is committed with status resolved
\* and resolved_at set.
C31_ImpactFailureKeepsResolve ==
  (/\ pin.fn = "patch"
   /\ pout.pc = "done"
   /\ pin.impact \in {"error", "db_error"}
   /\ pin.commit = "ok")
    => (/\ pout.code = 200
        /\ pout.row.status = "resolved"
        /\ pout.row.resolved_at # NULL)

(***************************************************************************)
(* Properties of overlapping requests                                      *)
(***************************************************************************)
\* the row after the PATCH and the auto-verification, one after the other
SerialOutcomes ==
  {AutoVerifiedRow(PatchedRow(ResolvedRow, pin.req, 3 * HOURS_DAILY + 1)),
   PatchedRow(AutoVerifiedRow(ResolvedRow), pin.req, 3 * HOURS_DAILY + 1)}

\* C35: when a PATCH step-back of a resolved decision and the
\* auto-verification of the same decision interleave, the decision never
\* ends verified with a null resolved_at, and the final row is one that the
\* two in some serial order produce.
C35_StepBackAndVerifySerialize ==
  (/\ pin.fn = "overlap_stepback"
   /\ pout.patch.pc = "done"
   /\ pout.verify.pc = "done")
    => (/\ ~(pout.row.status = "verified" /\ pout.row.resolved_at = NULL)
        /\ pout.row \in SerialOutcomes)

\* C36: when two POST /scans/{id}/decisions for one scan overlap, the scan
\* ends with at most one decision per action_id and no more than 3
\* decisions.
C36_OverlappingGenerateNoDuplicates ==
  pin.fn = "overlap_generate"
    => (/\ Len(pout.rows) <= 3
        /\ \A i, j \in 1..Len(pout.rows) :
             pout.rows[i].action_id = pout.rows[j].action_id => i = j)

(***************************************************************************)
(* Properties of the cache                                                 *)
(***************************************************************************)
\* C9: calls for the same key that overlap while the key has no unexpired
\* entry share one fetch: the fetcher runs once and all of them get its result
C9_SingleFlight ==
  \A a, b \in Callers :
    (cpc[a] = "fetching" /\ cpc[b] = "fetching" /\ ckey[a] = ckey[b])
      => cresult[a] = cresult[b]

\* C32: a call returns the stored value without invoking the fetcher whenever
\* the key has an entry whose expires_at is later than now; otherwise it
\* invokes the fetcher once, stores the result under the key with an expiry
\* ttl ahead of the now it read, and returns it.
C32_UnexpiredElseFetch ==
  [][\A c \in Callers :
       /\ (cpc[c] = "idle" /\ cpc'[c] # "idle")
            => IF cache[ckey'[c]].present /\ cache[ckey'[c]].expires_at > clock
               THEN /\ cpc'[c] = "done"
                    /\ cresult'[c] = cache[ckey'[c]].value
                    /\ fetchCount' = fetchCount
                    /\ cache' = cache
               ELSE /\ cpc'[c] = "fetching"
                    /\ fetchCount' = fetchCount + 1
                    /\ cresult'[c] \in FetchResults(fetchCount')
       /\ (cpc[c] = "fetching" /\ cpc'[c] = "done")
            => /\ cache'[ckey[c]] = [present |-> TRUE, value |-> cresult[c],
                                     expires_at |-> cstart[c] + TtlTicks]
               /\ cresult'[c] = cresult[c]
               /\ fetchCount' = fetchCount]_vars

\* a call that started after the storing call was served from its entry
C32_Witness ==
  \E b \in Callers :
    /\ cpc[b] = "done"
    /\ cache[ckey[b]].present
    /\ cresult[b] = cache[ckey[b]].value
    /\ cstart[b] > cache[ckey[b]].expires_at - TtlTicks
    /\ cstart[b] < cache[ckey[b]].expires_at

\* C38: a probe failure is never served from the cache: no stored bundle
\* has signals reporting that the source could not be queried.
C38_FailureNotCached ==
  \A k \in Keys : cache[k].present => ~ReportsFailure(cache[k].value)

(***************************************************************************)
(* Properties of the assets and the scheduler                              *)
(***************************************************************************)
\* the interval the frequency stands for: 1, 7 or 30 days
Delta(frequency) ==
  CASE frequency = "daily" -> HOURS_DAILY
    [] frequency = "weekly" -> HOURS_WEEKLY
    [] OTHER -> HOURS_MONTHLY

DueDailyThreeHoursAgo(i) ==
  /\ assets[i].status = "active"
  /\ assets[i].scan_frequency = "daily"
  /\ assets[i].next_scan_at = aclock - 3

\* C11: a scheduler tick that finds an active daily asset whose next_scan_at
\* lies three hours in the past runs one scan for it and sets its
\* next_scan_at to the tick time plus 24 hours, so that the following tick
\* does not select it again.
C11_DailyAssetScannedOncePerDay ==
  [][run_due_scans =>
       \A i \in AssetIds :
         DueDailyThreeHoursAgo(i) =>
           /\ i \in lastTick'.scanned
           /\ assets'[i].next_scan_at = aclock + HOURS_DAILY
           /\ i \notin {j \in AssetIds : assets'[j].next_scan_at <= aclock}]_vars

\* C12: in a scheduler tick, every due asset whose scan raises has the
\* error_count of its active schedule incremented by exactly one and its
\* last_error recorded, and every due asset of the tick is still processed.
C12_ScanErrorIsRecordedAndSkipped ==
  [][run_due_scans =>
       \A i \in DueAssets(aclock) :
         /\ i \in lastTick'.processed
         /\ TriggerRaises(assets[i]) =>
              \A k \in FirstActiveSchedule(schedules, i) :
                /\ schedules'[k].error_count = schedules[k].error_count + 1
                /\ schedules'[k].last_error # ""]_vars

\* a tick in which the scan of the first asset raised and a later due asset
\* was then processed
C12_Witness ==
  /\ lastTick.op = "tick"
  /\ \E i \in lastTick.raised, j \in lastTick.due :
       /\ i < j
       /\ j \in lastTick.processed
       /\ assets[j].last_scan_at = lastTick.at
       /\ \E k \in FirstActiveSchedule(schedules, i) :
            schedules[k].error_count = 1 /\ schedules[k].last_error # ""

\* C37: when the scheduled run of an asset raises, the asset's last_scan_at,
\* next_scan_at and last_risk_score are left unchanged, so the asset is
\* still due and is selected again at the next tick.
C37_FailedRunLeavesAssetDue ==
  [][run_due_scans =>
       \A i \in DueAssets(aclock) :
         TriggerRaises(assets[i]) =>
           /\ assets'[i].last_scan_at = assets[i].last_scan_at
           /\ assets'[i].next_scan_at = assets[i].next_scan_at
           /\ assets'[i].last_risk_score = assets[i].last_risk_score
           /\ assets'[i].status = "active"
           /\ assets'[i].scan_frequency # "manual"
           /\ assets'[i].next_scan_at # NULL
           /\ assets'[i].next_scan_at <= aclock']_vars

\* a tick in which the run of a due asset raised, after which the asset is
\* due as before
C37_Witness ==
  /\ lastTick.op = "tick"
  /\ \E i \in lastTick.raised :
       /\ i \in DueAssets(aclock)
       /\ assets[i].last_scan_at = NULL
       /\ \E k \in FirstActiveSchedule(schedules, i) : schedules[k].error_count = 1

\* C13: after every scheduled run of an asset that does not raise, whatever
\* the asset's type, the asset's last_scan_at is the run time and its
\* next_scan_at the run time plus the interval of its frequency, and its
\* active schedule has run_count incremented by one, next_run_at equal to the
\* asset's next_scan_at, last_scan_id set and last_error cleared.
C13_SuccessfulRunUpdatesAssetAndSchedule ==
  [][run_due_scans =>
       \A i \in DueAssets(aclock) :
         ~TriggerRaises(assets[i]) =>
           /\ assets'[i].last_scan_at = aclock
           /\ assets'[i].next_scan_at = aclock + Delta(assets[i].scan_frequency)
           /\ \A k \in FirstActiveSchedule(schedules, i) :
                /\ schedules'[k].run_count = schedules[k].run_count + 1
                /\ schedules'[k].next_run_at = assets'[i].next_scan_at
                /\ schedules'[k].last_scan_id # NULL
                /\ schedules'[k].last_error = ""]_vars

\* C14: every active asset whose scan_frequency is not manual has a
\* next_scan_at.
C14_ScheduledAssetHasNextScan ==
  \A i \in AssetIds :
    (assets[i].status = "active" /\ assets[i].scan_frequency # "manual")
      => assets[i].next_scan_at # NULL

(***************************************************************************)
(* Properties of the webhook dispatcher                                    *)
(***************************************************************************)
\* deliver_webhook has returned for delivery k
DeliverReturned(k) == emitter.pc \in {"idle", "loop"} \/ emitter.cur # k

Posted2xx(o) == o.kind = "response" /\ 200 <= o.code /\ o.code < 300

ErrorOf(o) == IF o.kind = "response" THEN <<"HTTP", o.code>> ELSE <<"Request timeout">>

\* C15: a delivery gets at most max_attempts POSTs and none after its first
\* 2xx response; once deliver_webhook has returned the delivery is not
\* pending: it is success if its last POST got a 2xx response, and otherwise
\* failed with attempts = max_attempts and the error of the last attempt.
C15_DeliveryEndsSuccessOrFailed ==
  \A k \in 1..Len(deliveries) :
    LET d == deliveries[k]
        n == Len(d.posts)
    IN /\ n <= d.max_attempts
       /\ d.attempts = n
       /\ \A j \in 1..(n - 1) : ~Posted2xx(d.posts[j])
       /\ DeliverReturned(k) =>
            /\ d.status # "pending"
            /\ n >= 1
            /\ IF Posted2xx(d.posts[n])
               THEN d.status = "success"
               ELSE /\ d.status = "failed"
                    /\ d.attempts = d.max_attempts
                    /\ d.error = ErrorOf(d.posts[n])

\* one delivery succeeded at its second attempt and another failed after
\* all its attempts
C15_Witness ==
  /\ emitter.pc = "idle"
  /\ \E k \in 1..Len(deliveries) :
       /\ deliveries[k].status = "success"
       /\ deliveries[k].attempts = 2
  /\ \E k \in 1..Len(deliveries) :
       /\ deliveries[k].status = "failed"
       /\ deliveries[k].attempts = DEFAULT_MAX_RETRIES

\* C16: while the delivery to one webhook waits to retry, emit_event has
\* returned to its caller and every other webhook subscribed to the event has
\* its delivery begun or can be sent its POST.
C16_DeliveryDoesNotBlockEmission ==
  \A k \in 1..Len(deliveries) :
    (emitter.pc = "sleep" /\ emitter.cur = k) =>
      /\ emitter.caller # "emit"
      /\ \A v \in Subscribed(deliveries[k].event_type) \ {deliveries[k].webhook_id} :
           \/ \E j \in 1..Len(deliveries) : deliveries[j].webhook_id = v
           \/ PostEnabled(v)

(***************************************************************************)
(* Properties of the scan quota                                            *)
(***************************************************************************)
ScansOfOrg(o) == {s \in scans : s.org_id = o.id}

\* C17: every scan run for a free-plan organisation is counted in its
\* scans_this_month, and the organisation never has more scans than its
\* scans_limit allows
C17_ScansCountedAndLimited ==
  \A o \in orgs :
    o.plan = "free" =>
      /\ o.scans_this_month = Cardinality(ScansOfOrg(o))
      /\ Cardinality(ScansOfOrg(o)) <= o.scans_limit


(***************************************************************************)
(* Properties of the probe fan-out                                         *)
(***************************************************************************)
ProbeNames == {"dns", "http", "tls", "ct", "otx", "cve", "github"}

\* the probes a call runs, and those whose adapter call raises
ProbeRuns(name) ==
  CASE name = "cve" -> TechTokens(pin.probes)
    [] name = "github" -> pin.github_org # ""
    [] OTHER -> TRUE

AdapterRaises(name) ==
  IF name = "otx" THEN TRUE ELSE pin.probes[name] = "raise"

ErrorSignals(signals, name) ==
  SelectSeq(signals, LAMBDA x : x.id = <<"service_", name, "_failure">>)

\* C18: for every probe that runs and whose adapter raises, the merged signals
\* hold exactly one service-error signal of that probe, and scan_vendor
\* returns a result instead of letting the exception through
C18_ProbeFailureIsOneSignal ==
  pout # NoCall =>
    /\ pout.code = 200
    /\ \A name \in ProbeNames :
         (ProbeRuns(name) /\ AdapterRaises(name))
           => Len(ErrorSignals(pout.signals, name)) = 1

C18_Witness ==
  /\ pout # NoCall /\ pout.code = 200
  /\ pin.probes.dns = "raise" /\ pin.probes.tls = "raise"
  /\ pin.probes.http = "finding" /\ pin.probes.cve = "raise"
  /\ Len(ErrorSignals(pout.signals, "dns")) = 1
  /\ Len(ErrorSignals(pout.signals, "cve")) = 1

\* C19: when the DNS adapter raises and every other adapter succeeds, the
\* result holds exactly one service-error signal, service_dns_failure, and
\* partial_failures is 1
C19_DnsFailureCountsOne ==
  (/\ pout # NoCall
   /\ pin.probes.dns = "raise"
   /\ \A name \in ProbeNames \ {"dns"} : pin.probes[name] \notin {"raise", "error"})
    => /\ SelectSeq(pout.signals, IsServiceError)
            = <<make_service_error_signal("dns", "network")>>
       /\ pout.partial_failures = 1

\* C20: when no probe finds anything, the signals of the scan are exactly the
\* synthetic scan_completed_no_findings signal and the risk score is 0; the
\* signals of a scan are never empty
C20_NoFindingsScoresZero ==
  pout # NoCall =>
    /\ pout.signals # <<>>
    /\ (\A name \in ProbeNames : pin.probes[name] \in {"none", "tokens"})
         => (pout.signals = <<NoFindings>> /\ pout.risk_score = 0)

====
